---- MODULE Spec2Model ----
(***************************************************************************)
(* A model of whipple.py, the script that derives the equations of motion  *)
(* of the Carvallo-Whipple bicycle on a kickplate and writes Octave        *)
(* evaluators for them.                                                    *)
(*                                                                         *)
(* Two specifications are given.                                           *)
(*                                                                         *)
(*   Spec      the script as a sequential program: one step per top-level  *)
(*             Python statement, and a write that the file system may      *)
(*             refuse.  Symbolic values are modelled by what the script's  *)
(*             own bookkeeping depends on: which names are bound, which    *)
(*             frames, points, positions and velocities exist, the shape   *)
(*             of each matrix and the set of symbols each entry may        *)
(*             contain (a structural zero is kept apart from "some         *)
(*             expression in these symbols").                              *)
(*                                                                         *)
(*   SpecEval  the script on a file system that accepts every write,       *)
(*             followed by one call of a generated function.  The          *)
(*             exported expressions are evaluated exactly, at angles that  *)
(*             are whole quarter turns (where every sine and cosine is     *)
(*             -1, 0 or 1) and at integer geometry.                        *)
(***************************************************************************)
EXTENDS Integers, Sequences, FiniteSets, TLC

VARIABLES
    pc,        \* index in the script of the next statement to execute
    status,    \* "running" or "failed" (an exception left the script)
    error,     \* the exception that ended the run, or "none"
    names,     \* the global names that are bound
    frames,    \* the ReferenceFrame objects created
    orient,    \* frame -> [parent, angle, axis]: orient() calls
    angvel,    \* frame -> [parent, v]: set_ang_vel() calls
    points,    \* the Point objects created (by the variable that holds them)
    pos,       \* point -> sequence of [parent, v]: its set_pos() calls
    vel,       \* point -> sequence of velocities in N set for it
    vec,       \* name -> value of a vector-valued global
    mat,       \* name -> [rows, cols, e]: value of a matrix-valued global
    tup,       \* name -> sequence of names: tuple- and list-valued globals
    maps,      \* name -> substitution dictionary
    body,      \* name -> RigidBody
    load,      \* name -> (point or frame, vector) pair
    kane,      \* the KanesMethod object, or NoKane
    gen,       \* the current OctaveMatrixGenerator, or NoGen
    written,   \* the files written by gen.write, in order
    expr,      \* the expressions behind pos, vel, angvel, vec and mat: a heap
               \* of shared vector nodes and, per name, the node it refers to
    call       \* SpecEval: the last call of a generated function

pvars == <<pc, status, error, names, frames, orient, angvel, points, pos,
           vel, vec, mat, tup, maps, body, load, kane, gen, written, expr>>
vars == <<pvars, call>>

(***************************************************************************)
(* Symbol sets.  An entry of a symbolic object is either the structural    *)
(* zero Z or the set of symbols it may contain (One: a nonzero number).    *)
(***************************************************************************)
Z == {"0"}
One == {}

AMul(a, b) == IF a = Z \/ b = Z THEN Z ELSE a \cup b
AAdd(a, b) == IF a = Z THEN b ELSE IF b = Z THEN a ELSE a \cup b
Syms(a) == IF a = Z THEN {} ELSE a

RECURSIVE UnionAll(_)
UnionAll(s) == IF s = <<>> THEN {} ELSE Syms(Head(s)) \cup UnionAll(Tail(s))

Range(s) == {s[i] : i \in DOMAIN s}

\* frames in which a vector can have measure numbers: the oriented ones
VFrames == {"N", "A", "B", "C", "E"}
ZeroVec == [f \in VFrames |-> <<Z, Z, Z>>]

ASumSet(T) == IF T \ {Z} = {} THEN Z ELSE UNION (T \ {Z})

(***************************************************************************)
(* Direction cosine matrices.  X.orient(P, 'Axis', (q, P[k])) relates X to *)
(* P by an elementary rotation: entry (k,k) is 1, the rest of row and      *)
(* column k is 0 and the other four entries are cos q or +-sin q.  The     *)
(* matrix between two frames is the product along the orientation path.    *)
(***************************************************************************)
Elem(k, q) ==
    [i \in 1..3 |-> [j \in 1..3 |->
        IF i = k /\ j = k THEN One ELSE IF i = k \/ j = k THEN Z ELSE {q}]]

Ident == [i \in 1..3 |-> [j \in 1..3 |-> IF i = j THEN One ELSE Z]]

MatMul(X, Y) ==
    [i \in 1..3 |-> [j \in 1..3 |->
        ASumSet({AMul(X[i][k], Y[k][j]) : k \in 1..3})]]

Transpose(X) == [i \in 1..3 |-> [j \in 1..3 |-> X[j][i]]]

RECURSIVE Ancestors(_)
Ancestors(f) ==
    IF f \in DOMAIN orient THEN <<f>> \o Ancestors(orient[f].parent) ELSE <<f>>

RECURSIVE DcmUp(_, _)
DcmUp(f, g) ==
    IF f = g \/ f \notin DOMAIN orient THEN Ident
    ELSE MatMul(Elem(orient[f].axis, orient[f].angle),
                DcmUp(orient[f].parent, g))

FirstCommon(s, t) ==
    LET I == {i \in DOMAIN s : s[i] \in Range(t)}
    IN  IF I = {} THEN "none"
        ELSE s[CHOOSE i \in I : \A j \in I : i <= j]

\* Dcm(f, g)[i][j] is the dot product of f's i-th and g's j-th basis vector
Dcm(f, g) ==
    LET c == FirstCommon(Ancestors(f), Ancestors(g))
    IN  MatMul(DcmUp(f, c), Transpose(DcmUp(g, c)))

\* sympy raises ValueError when no orientation path joins two frames
Connected(F) ==
    \A f \in F, g \in F : FirstCommon(Ancestors(f), Ancestors(g)) # "none"

(***************************************************************************)
(* Vectors: measure numbers per frame, as sympy.physics.vector keeps them. *)
(***************************************************************************)
NZ(v) == {f \in VFrames : v[f] # <<Z, Z, Z>>}

Basis(f, i) ==
    [g \in VFrames |->
        IF g = f THEN [j \in 1..3 |-> IF j = i THEN One ELSE Z]
        ELSE <<Z, Z, Z>>]

VAdd(v, w) == [f \in VFrames |-> [i \in 1..3 |-> AAdd(v[f][i], w[f][i])]]

VScale(S, v) == [f \in VFrames |-> [i \in 1..3 |-> AMul(S, v[f][i])]]

Express(v, g) ==
    [j \in 1..3 |->
        ASumSet({AMul(v[f][i], Dcm(f, g)[i][j]) : f \in NZ(v), i \in 1..3})]

Dot(v, w) ==
    ASumSet({AMul(Express(v, g)[j], w[g][j]) : g \in NZ(w), j \in 1..3})

\* Vector.cross: the result is expressed in the frames of the right operand
Cross(v, w) ==
    [g \in VFrames |->
        IF g \in NZ(w)
        THEN LET x == Express(v, g)
             IN  [k \in 1..3 |->
                    ASumSet({AMul(x[p[1]], w[g][p[2]]) :
                        p \in {r \in (1..3) \X (1..3) :
                                 r[1] # r[2] /\ r[1] # k /\ r[2] # k}})]
        ELSE <<Z, Z, Z>>]

\* Vector.normalize: division by sqrt(v . v)
Normalize(v) == VScale(Syms(Dot(v, v)), v)

\* derivative of the measure numbers with respect to a speed (linear in it)
Diff(v, u) ==
    [f \in VFrames |-> [i \in 1..3 |->
        IF v[f][i] # Z /\ u \in v[f][i] THEN v[f][i] \ {u} ELSE Z]]

VecSyms(v) == UNION {Syms(v[f][i]) : f \in VFrames, i \in 1..3}

(***************************************************************************)
(* Vector expressions as the script writes them.                           *)
(***************************************************************************)
Bv(f, i) == [t |-> "basis", f |-> f, i |-> i]            \* F['i']
Sc(sg, S, v) == [t |-> "scale", sg |-> sg, s |-> S, v |-> v] \* +-(product of S)*v
Ad(l, r) == [t |-> "add", l |-> l, r |-> r]              \* l + r
Cr(l, r) == [t |-> "cross", l |-> l, r |-> r]            \* l.cross(r)
Nz(v) == [t |-> "normalize", v |-> v]                    \* v.normalize()
Nm(n) == [t |-> "name", n |-> n]                         \* a vector-valued global
Vl(p) == [t |-> "vel", p |-> p]                          \* p.vel(N)
Pf(p, q) == [t |-> "pos_from", p |-> p, q |-> q]         \* p.pos_from(q)
Zv == [t |-> "zero"]                                     \* 0

\* the point and its ancestors in the position tree
RECURSIVE PAnc(_)
PAnc(p) ==
    IF p \in DOMAIN pos /\ pos[p] # <<>>
    THEN <<p>> \o PAnc(pos[p][1].parent) ELSE <<p>>

RECURSIVE UpTo(_, _)
UpTo(p, c) ==
    IF p = c \/ p \notin DOMAIN pos \/ pos[p] = <<>> THEN ZeroVec
    ELSE VAdd(pos[p][1].v, UpTo(pos[p][1].parent, c))

PosConnected(p, q) == FirstCommon(PAnc(p), PAnc(q)) # "none"

\* Point.pos_from: the sum of the position vectors along the path
PosFrom(p, q) ==
    LET c == FirstCommon(PAnc(p), PAnc(q))
    IN  VAdd(UpTo(p, c), UpTo(q, c))

VelSet(p) == p \in DOMAIN vel /\ vel[p] # <<>>
VelOf(p) == vel[p][Len(vel[p])]

\* ReferenceFrame.ang_vel_in(N): the sum along the angular velocity path
RECURSIVE AngVelIn(_)
AngVelIn(f) ==
    IF f \in DOMAIN angvel
    THEN VAdd(angvel[f].v, AngVelIn(angvel[f].parent)) ELSE ZeroVec

RECURSIVE AngVelRoot(_)
AngVelRoot(f) == IF f \in DOMAIN angvel THEN AngVelRoot(angvel[f].parent) ELSE f

RECURSIVE EvalVec(_)
EvalVec(e) ==
    CASE e.t = "basis" -> Basis(e.f, e.i)
      [] e.t = "scale" -> VScale(e.s, EvalVec(e.v))
      [] e.t = "add" -> VAdd(EvalVec(e.l), EvalVec(e.r))
      [] e.t = "cross" -> Cross(EvalVec(e.l), EvalVec(e.r))
      [] e.t = "normalize" -> Normalize(EvalVec(e.v))
      [] e.t = "name" -> vec[e.n]
      [] e.t = "vel" -> VelOf(e.p)
      [] e.t = "pos_from" -> PosFrom(e.p, e.q)
      [] e.t = "zero" -> ZeroVec

\* the points whose velocity, and the pairs whose relative position, e reads
RECURSIVE VelReads(_)
VelReads(e) ==
    CASE e.t = "vel" -> {e.p}
      [] e.t \in {"scale", "normalize"} -> VelReads(e.v)
      [] e.t \in {"add", "cross"} -> VelReads(e.l) \cup VelReads(e.r)
      [] OTHER -> {}

RECURSIVE PosReads(_)
PosReads(e) ==
    CASE e.t = "pos_from" -> {<<e.p, e.q>>}
      [] e.t \in {"scale", "normalize"} -> PosReads(e.v)
      [] e.t \in {"add", "cross"} -> PosReads(e.l) \cup PosReads(e.r)
      [] OTHER -> {}

RECURSIVE FrameReads(_)
FrameReads(e) ==
    CASE e.t = "basis" -> {e.f}
      [] e.t \in {"scale", "normalize"} -> FrameReads(e.v)
      [] e.t \in {"add", "cross"} -> FrameReads(e.l) \cup FrameReads(e.r)
      [] OTHER -> {}

(***************************************************************************)
(* Matrix expressions.  A matrix value is [rows, cols, e] with e the       *)
(* row-major sequence of its entries' symbol sets.                         *)
(***************************************************************************)
Mn(n) == [t |-> "name", n |-> n]                     \* a matrix-valued global
Mx(m, d) == [t |-> "xreplace", m |-> m, d |-> d]     \* m.xreplace(d)
Mdt(m) == [t |-> "dt", m |-> m]                      \* m.diff(t)
Msame(m) == m                                        \* m
Mneg(m) == [t |-> "neg", m |-> m]                    \* -m
Mk(a) == [t |-> "kane", a |-> a]                     \* kane.<a>
Midx(m, i) == [t |-> "index", m |-> m, i |-> i]      \* m[i-1]
Mdiff(m, x) == [t |-> "diff", m |-> m, x |-> x]      \* m.diff(x)
Mrows(r) == [t |-> "rows", r |-> r]                  \* sm.Matrix([[..], ..])

Dlit(d) == [k |-> "lit", d |-> d]                    \* {sym: replacement, ..}
Dname(n) == [k |-> "name", n |-> n]                  \* a dictionary global
Dkin == [k |-> "kindiff"]                            \* kane.kindiffdict()

\* time derivatives of the time-varying symbols that get differentiated
DerivOf ==
    [x \in {"q1", "q2", "q3", "q4", "q5", "q6", "q7", "q8",
            "u1", "u2", "u3", "u4", "u5", "u6", "u7", "u8", "u11", "u12",
            "y", "Dy", "yd"} |->
        CASE x = "q1" -> "Dq1" [] x = "q2" -> "Dq2" [] x = "q3" -> "Dq3"
          [] x = "q4" -> "Dq4" [] x = "q5" -> "Dq5" [] x = "q6" -> "Dq6"
          [] x = "q7" -> "Dq7" [] x = "q8" -> "Dq8"
          [] x = "u1" -> "Du1" [] x = "u2" -> "Du2" [] x = "u3" -> "Du3"
          [] x = "u4" -> "Du4" [] x = "u5" -> "Du5" [] x = "u6" -> "Du6"
          [] x = "u7" -> "Du7" [] x = "u8" -> "Du8"
          [] x = "u11" -> "Du11" [] x = "u12" -> "Du12"
          [] x = "y" -> "Dy" [] x = "Dy" -> "DDy" [] x = "yd" -> "Dyd"]

\* ui.name + 'p'
PName ==
    [x \in {"u1", "u2", "u3", "u4", "u5", "u6", "u7", "u8", "u11", "u12"} |->
        CASE x = "u1" -> "u1p" [] x = "u2" -> "u2p" [] x = "u3" -> "u3p"
          [] x = "u4" -> "u4p" [] x = "u5" -> "u5p" [] x = "u6" -> "u6p"
          [] x = "u7" -> "u7p" [] x = "u8" -> "u8p"
          [] x = "u11" -> "u11p" [] x = "u12" -> "u12p"]

KaneBuilt == kane.built
KaneSolved == kane.built /\ kane.solved

EvalDict(d) ==
    CASE d.k = "lit" -> d.d
      [] d.k = "name" -> maps[d.n]
      [] d.k = "kindiff" -> kane.kindiff

XReplace(a, d) ==
    IF a = Z THEN Z
    ELSE (a \ DOMAIN d) \cup UNION {Syms(d[x]) : x \in a \cap DOMAIN d}

DiffT(a) ==
    IF a = Z THEN Z ELSE a \cup {DerivOf[x] : x \in a \cap DOMAIN DerivOf}

DiffSym(a, x) == IF a # Z /\ x \in a THEN a ELSE Z

RECURSIVE EvalMat(_)
EvalMat(x) ==
    CASE x.t = "name" -> mat[x.n]
      [] x.t = "xreplace" ->
            LET m == EvalMat(x.m)  d == EvalDict(x.d)
            IN  [m EXCEPT !.e = [i \in DOMAIN m.e |-> XReplace(m.e[i], d)]]
      [] x.t = "dt" ->
            LET m == EvalMat(x.m)
            IN  [m EXCEPT !.e = [i \in DOMAIN m.e |-> DiffT(m.e[i])]]
      [] x.t = "neg" -> EvalMat(x.m)
      [] x.t = "kane" -> kane[x.a]
      [] x.t = "index" ->
            [rows |-> 1, cols |-> 1, e |-> <<EvalMat(x.m).e[x.i]>>]
      [] x.t = "diff" ->
            LET m == EvalMat(x.m)
            IN  [m EXCEPT !.e = [i \in DOMAIN m.e |-> DiffSym(m.e[i], x.x)]]
      [] x.t = "rows" ->
            [rows |-> Len(x.r), cols |-> Len(x.r[1]),
             e |-> [i \in 1..(Len(x.r) * Len(x.r[1])) |->
                      mat[x.r[((i - 1) \div Len(x.r[1])) + 1]
                             [((i - 1) % Len(x.r[1])) + 1]].e[1]]]

\* the attributes of kane that a matrix expression reads
RECURSIVE KaneReads(_)
KaneReads(x) ==
    CASE x.t = "kane" -> {x.a}
      [] x.t = "xreplace" ->
            KaneReads(x.m) \cup (IF x.d.k = "kindiff" THEN {"kindiff"} ELSE {})
      [] x.t \in {"dt", "neg", "index", "diff"} -> KaneReads(x.m)
      [] OTHER -> {}

FreeSymbols(m) == UnionAll(m.e)

(***************************************************************************)
(* The dynamics formulator, mec.KanesMethod, by its contract.              *)
(***************************************************************************)
NoKane == [built |-> FALSE]
NoGen == [made |-> FALSE]

\* KanesMethod.__init__ raises ValueError unless there are as many
\* configuration constraints as dependent coordinates, as many velocity
\* constraints as dependent speeds, and as many kinematical differential
\* equations as coordinates.
KaneConsistent(a) ==
    /\ Len(tup[a.q_dep]) = mat[a.holon].rows
    /\ Len(tup[a.u_dep]) = mat[a.nonho].rows
    /\ Cardinality(DOMAIN maps[a.kd]) = Len(tup[a.q_ind]) + Len(tup[a.q_dep])

\* u_dep passed as the independent speeds and u_ind as the dependent ones
KaneObjectSpeedsSwapped(a) ==
    [built |-> TRUE, solved |-> FALSE,
     q_ind |-> tup[a.q_ind], q_dep |-> tup[a.q_dep],
     u_ind |-> tup[a.u_dep], u_dep |-> tup[a.u_ind], u_aux |-> tup[a.u_aux],
     kindiff |-> maps[a.kd], holon |-> mat[a.holon], nonho |-> mat[a.nonho]]

KaneObject(a) ==
    [built |-> TRUE, solved |-> FALSE,
     q_ind |-> tup[a.q_ind], q_dep |-> tup[a.q_dep],
     u_ind |-> tup[a.u_ind], u_dep |-> tup[a.u_dep], u_aux |-> tup[a.u_aux],
     kindiff |-> maps[a.kd], holon |-> mat[a.holon], nonho |-> mat[a.nonho]]

\* the velocity a load acts through: of its point, or of its frame
LoadVel(l) == IF l.target \in points THEN VelOf(l.target) ELSE AngVelIn(l.target)

\* generalized active forces: sum over the loads of the partial velocity
\* with respect to the speed, dotted with the load
ActiveSyms(ls, speeds) ==
    UNION {Syms(Dot(Diff(LoadVel(load[n]), r), load[n].v)) :
               n \in Range(ls), r \in speeds}

AllAngles == {orient[f].angle : f \in DOMAIN orient}

BodySyms(b) ==
    {b.mass} \cup FreeSymbols(mat[b.inertia])
        \cup VecSyms(VelOf(b.masscenter)) \cup VecSyms(AngVelIn(b.frame))

\* the symbols the time derivative brings in: q' is replaced by its speed,
\* the u' are collected in the mass matrix, other derivatives stay
TimeClosure(S) ==
    S \cup UNION {LET d == DerivOf[x]
                  IN  IF d \in DOMAIN kane.kindiff THEN kane.kindiff[d]
                      ELSE IF x \in DOMAIN PName THEN {} ELSE {d} :
                  x \in S \cap DOMAIN DerivOf}

KinematicSyms(bs) ==
    UNION {BodySyms(body[n]) : n \in Range(bs)}
        \cup FreeSymbols(kane.nonho) \cup AllAngles

Speeds == kane.u_ind \o kane.u_dep

\* the rows of the dynamic equations alone
DynamicRows == Len(kane.u_ind)

\* mass_matrix is Matrix([k_d, k_dnh]): one row per independent speed, one
\* row per velocity constraint, one column per speed in u_ind + u_dep
MassMatrixRows == (Len(Speeds) - Len(kane.u_dep)) + kane.nonho.rows
MassMatrixCols == Len(Speeds)

Filled(r, c, S) == [rows |-> r, cols |-> c, e |-> [i \in 1..(r * c) |-> S]]

\* the speeds, the auxiliary speeds and every time derivative
RateSyms ==
    Range(Speeds) \cup Range(kane.u_aux) \cup {DerivOf[x] : x \in DOMAIN DerivOf}

\* the mass matrix is built from the masses, the inertias, the partial
\* velocities and the Jacobian of the velocity constraints; the velocities
\* are linear in the rates, so none of these contains a rate
MassSyms(bs) ==
    (UNION {{body[n].mass} \cup FreeSymbols(mat[body[n].inertia])
              \cup UNION {VecSyms(Diff(VelOf(body[n].masscenter), r))
                            \cup VecSyms(Diff(AngVelIn(body[n].frame), r)) :
                          r \in Range(Speeds)} : n \in Range(bs)}
       \cup UNION {Syms(DiffSym(kane.nonho.e[i], r)) :
                      i \in DOMAIN kane.nonho.e, r \in Range(Speeds)})
    \ RateSyms

KaneSolution(bs, ls) ==
    LET aux == Range(kane.u_aux)
        auxdot == {DerivOf[x] : x \in aux}
        kin == KinematicSyms(bs)
        inertial == TimeClosure(kin) \ (aux \cup auxdot)
    IN  [kane EXCEPT !.solved = TRUE] @@
        [bodies |-> bs, loads |-> ls,
         mass_matrix |-> Filled(MassMatrixRows, MassMatrixCols, MassSyms(bs)),
         forcing |-> Filled(MassMatrixRows, 1,
                        ActiveSyms(ls, Range(Speeds)) \cup inertial),
         auxiliary_eqs |->
            [rows |-> Len(kane.u_aux), cols |-> 1,
             e |-> [i \in 1..Len(kane.u_aux) |->
                     ActiveSyms(ls, {kane.u_aux[i]}) \cup inertial
                        \cup {DerivOf[x] : x \in Range(Speeds)}]]]

(***************************************************************************)
(* The affine decomposition, utils.decompose_linear_parts(m, targets):     *)
(* A, b with A*targets + b == m.  For m affine in the targets neither A    *)
(* nor b contains a target.                                                *)
(***************************************************************************)
DecomposeA(m, targets) ==
    [rows |-> m.rows, cols |-> Len(targets),
     e |-> [i \in 1..(m.rows * Len(targets)) |->
              LET a == m.e[((i - 1) \div Len(targets)) + 1]
                  x == targets[((i - 1) % Len(targets)) + 1]
              IN  IF a # Z /\ x \in a THEN a \ Range(targets) ELSE Z]]

DecomposeB(m, targets) ==
    [m EXCEPT !.e = [i \in DOMAIN m.e |->
        IF m.e[i] = Z THEN Z ELSE m.e[i] \ Range(targets)]]

\* a group of arguments or targets: written out, or a tuple-valued global
Names(g) == IF g.k = "lit" THEN g.s ELSE tup[g.n]
Glit(s) == [k |-> "lit", s |-> s]
Gname(n) == [k |-> "name", n |-> n]

ArgSymbols(groups) == UNION {Range(Names(groups[i])) : i \in DOMAIN groups}
MatSymbols(ms) == UNION {FreeSymbols(EvalMat(ms[i])) : i \in DOMAIN ms}

(***************************************************************************)
(* Expression trees.  Next to the symbol sets the model keeps, for the     *)
(* kinematic objects and the matrices built from them, the expression      *)
(* itself, with every reference to another object resolved at the moment   *)
(* the expression is built (Python evaluates the right-hand side eagerly). *)
(***************************************************************************)
Opaque == [t |-> "opaque"]
NoExpr == [heap |-> <<>>, pos |-> <<>>, vel |-> <<>>, angv |-> <<>>,
           vec |-> <<>>, mat |-> <<>>]

\* an expression that was built before, by its place in the heap
Rf(k) == [t |-> "ref", k |-> k]

Kids(n) ==
    CASE n.t \in {"scale", "normalize"} -> {n.v}
      [] n.t \in {"add", "cross"} -> {n.l, n.r}
      [] OTHER -> {}

Max(S) == CHOOSE r \in S : \A x \in S : x <= r

\* the heap with the node n, and the place of n in it; rank is the height
\* of the expression below the node
Push(h, n) ==
    LET m == [rank |-> IF Kids(n) = {} THEN 1
                       ELSE 1 + Max({h[k].rank : k \in Kids(n)})] @@ n
    IN  IF \E k \in DOMAIN h : h[k] = m
        THEN <<h, CHOOSE k \in DOMAIN h : h[k] = m>>
        ELSE <<Append(h, m), Len(h) + 1>>

RECURSIVE UpX(_, _)
UpX(p, c) ==
    IF p = c \/ p \notin DOMAIN pos \/ pos[p] = <<>> THEN Zv
    ELSE Ad(Rf(expr.pos[p]), UpX(pos[p][1].parent, c))

\* q.pos_from(p)
PosXReversed(p, q) ==
    LET c == FirstCommon(PAnc(p), PAnc(q))
    IN  Ad(UpX(q, c), Sc(-1, {}, UpX(p, c)))

PosX(p, q) ==
    LET c == FirstCommon(PAnc(p), PAnc(q))
    IN  Ad(UpX(p, c), Sc(-1, {}, UpX(q, c)))

RECURSIVE AngVelX(_)
AngVelX(f) ==
    IF f \in DOMAIN angvel
    THEN Ad(Rf(expr.angv[f]), AngVelX(angvel[f].parent)) ELSE Zv

\* the expression e is built on the heap h: a name stands for the expression
\* bound to it now, and a sum with zero is the other term
RECURSIVE CloseVec(_, _)
CloseVec(h, e) ==
    CASE e.t = "ref" -> <<h, e.k>>
      [] e.t = "name" -> <<h, expr.vec[e.n]>>
      [] e.t = "vel" -> <<h, expr.vel[e.p]>>
      [] e.t = "pos_from" -> CloseVec(h, PosX(e.p, e.q))
      [] e.t \in {"scale", "normalize"} ->
            LET a == CloseVec(h, e.v)
            IN  Push(a[1], [e EXCEPT !.v = a[2]])
      [] e.t \in {"add", "cross"} ->
            LET a == CloseVec(h, e.l)
                b == CloseVec(a[1], e.r)
            IN  IF e.t = "add" /\ b[1][a[2]].t = "zero" THEN b
                ELSE IF e.t = "add" /\ b[1][b[2]].t = "zero"
                THEN <<b[1], a[2]>>
                ELSE Push(b[1], [e EXCEPT !.l = a[2], !.r = b[2]])
      [] OTHER -> Push(h, e)

RECURSIVE CloseAll(_, _)
CloseAll(h, es) ==
    IF es = <<>> THEN <<h, <<>>>>
    ELSE LET a == CloseVec(h, Head(es))
             b == CloseAll(a[1], Tail(es))
         IN  <<b[1], <<a[2]>> \o b[2]>>

\* the nodes the nodes S are built from, themselves included
RECURSIVE Needs(_, _)
Needs(h, S) ==
    IF S = {} THEN {} ELSE S \cup Needs(h, UNION {Kids(h[k]) : k \in S})

\* the nodes S need, by rank
Levels(h, S) ==
    LET N == Needs(h, S)
    IN  [r \in 1..Max({h[k].rank : k \in N}) |-> {k \in N : h[k].rank = r}]

\* [v1.dot(w1), v2.dot(w2), ..]
Dots(items) ==
    LET n == Len(items)
        a == CloseAll(expr.heap,
                      [i \in 1..(2 * n) |->
                          IF i % 2 = 1 THEN items[(i + 1) \div 2].l
                          ELSE items[i \div 2].r])
    IN  <<a[1], [t |-> "dots",
                 items |-> [i \in 1..n |->
                              [l |-> a[2][2 * i - 1], r |-> a[2][2 * i]]],
                 levels |-> Levels(a[1], Range(a[2]))]>>

RECURSIVE CloseMat(_)
CloseMat(x) ==
    CASE x.t = "name" -> expr.mat[x.n]
      [] x.t = "xreplace" ->
            [t |-> "xreplace", m |-> CloseMat(x.m), d |-> EvalDict(x.d)]
      [] x.t = "dt" -> Mdt(CloseMat(x.m))
      [] x.t = "neg" -> Mneg(CloseMat(x.m))
      [] x.t = "index" -> Midx(CloseMat(x.m), x.i)
      [] x.t = "rows" ->
            Mrows([i \in DOMAIN x.r |->
                     [j \in DOMAIN x.r[i] |-> expr.mat[x.r[i][j]]]])
      [] OTHER -> Opaque

(***************************************************************************)
(* The numeric meaning of an expression tree.  A number is kept with its   *)
(* time derivative, <<value, rate>>, so that diff(t) can be followed.  An  *)
(* angle is a whole number of quarter turns: its cosine and sine are then  *)
(* -1, 0 or 1 and every quantity below is an integer.                      *)
(***************************************************************************)
Dual(a) == <<a, 0>>
DAdd(a, b) == <<a[1] + b[1], a[2] + b[2]>>
DMul(a, b) == <<a[1] * b[1], a[1] * b[2] + a[2] * b[1]>>
DNeg(a) == <<-a[1], -a[2]>>

Cos4 == <<1, 0, -1, 0>>
Sin4 == <<0, 1, 0, -1>>
DCos(a) == <<Cos4[(a[1] % 4) + 1], -Sin4[(a[1] % 4) + 1] * a[2]>>
DSin(a) == <<Sin4[(a[1] % 4) + 1], Cos4[(a[1] % 4) + 1] * a[2]>>

\* the value of a symbol; one that occurs in no matrix has no influence
Val(env, x) == IF x \in DOMAIN env THEN env[x] ELSE Dual(0)

RECURSIVE DProd(_, _)
DProd(S, env) ==
    IF S = {} THEN Dual(1)
    ELSE LET x == CHOOSE y \in S : TRUE
         IN  DMul(Val(env, x), DProd(S \ {x}, env))

\* a vector is measured in N: three values followed by their three rates
NUnit(i) ==
    <<IF i = 1 THEN 1 ELSE 0, IF i = 2 THEN 1 ELSE 0, IF i = 3 THEN 1 ELSE 0,
      0, 0, 0>>
NAdd(v, w) ==
    <<v[1] + w[1], v[2] + w[2], v[3] + w[3],
      v[4] + w[4], v[5] + w[5], v[6] + w[6]>>
NScale(a, v) ==
    <<a[1] * v[1], a[1] * v[2], a[1] * v[3],
      a[1] * v[4] + a[2] * v[1], a[1] * v[5] + a[2] * v[2],
      a[1] * v[6] + a[2] * v[3]>>
NDot(v, w) ==
    <<v[1] * w[1] + v[2] * w[2] + v[3] * w[3],
      v[4] * w[1] + v[1] * w[4] + v[5] * w[2] + v[2] * w[5]
        + v[6] * w[3] + v[3] * w[6]>>
NCross(v, w) ==
    <<v[2] * w[3] - v[3] * w[2],
      v[3] * w[1] - v[1] * w[3],
      v[1] * w[2] - v[2] * w[1],
      v[5] * w[3] + v[2] * w[6] - v[6] * w[2] - v[3] * w[5],
      v[6] * w[1] + v[3] * w[4] - v[4] * w[3] - v[1] * w[6],
      v[4] * w[2] + v[1] * w[5] - v[5] * w[1] - v[2] * w[4]>>

\* v / sqrt(v . v) for v . v = 1: the rate of the norm is v . v'
NNormalize(v) ==
    LET k == v[1] * v[4] + v[2] * v[5] + v[3] * v[6]
    IN  <<v[1], v[2], v[3], v[4] - v[1] * k, v[5] - v[2] * k, v[6] - v[3] * k>>

\* X.orient(P, 'Axis', (q, P[k])): the basis of X in terms of the basis of P
RotEntry(k, a, i, j) ==
    IF i = k /\ j = k THEN Dual(1)
    ELSE IF i = k \/ j = k THEN Dual(0)
    ELSE IF i = j THEN DCos(a)
    ELSE IF i = (k % 3) + 1 THEN DSin(a) ELSE DNeg(DSin(a))

\* row i of the rotation applied to the three basis vectors P of the parent
NComb(k, a, i, P) ==
    IF i = k THEN P[k]
    ELSE NAdd(NScale(RotEntry(k, a, i, i), P[i]),
              NScale(RotEntry(k, a, i, 6 - i - k), P[6 - i - k]))

\* the bases of the oriented frames, a frame after the frame it is
\* oriented from
RECURSIVE FrameTable(_, _)
FrameTable(S, env) ==
    IF S = {} THEN <<>>
    ELSE LET f == CHOOSE g \in S : \A h \in S : orient[h].parent # g
             T == FrameTable(S \ {f}, env)
             P == IF orient[f].parent \in DOMAIN T THEN T[orient[f].parent]
                  ELSE <<NUnit(1), NUnit(2), NUnit(3)>>
             k == orient[f].axis
             a == Val(env, orient[f].angle)
         IN  T @@ (f :> <<NComb(k, a, 1, P), NComb(k, a, 2, P),
                          NComb(k, a, 3, P)>>)

\* the value of a node whose parts have their values in T
NNode(n, env, F, T) ==
    CASE n.t = "basis" -> IF n.f \in DOMAIN F THEN F[n.f][n.i] ELSE NUnit(n.i)
      [] n.t = "scale" -> NScale(DMul(Dual(n.sg), DProd(n.s, env)), T[n.v])
      [] n.t = "add" -> NAdd(T[n.l], T[n.r])
      [] n.t = "cross" -> NCross(T[n.l], T[n.r])
      [] n.t = "normalize" -> NNormalize(T[n.v])
      [] n.t = "zero" -> <<0, 0, 0, 0, 0, 0>>

\* the values of the nodes of the ranks 1..r
RECURSIVE Ranks(_, _, _, _, _)
Ranks(h, L, r, env, F) ==
    IF r = 0 THEN <<>>
    ELSE LET T == Ranks(h, L, r - 1, env, F)
         IN  T @@ [k \in L[r] |-> NNode(h[k], env, F, T)]

NHeap(h, L, env) ==
    LET F == FrameTable(DOMAIN orient, env)
    IN  <<F, Ranks(h, L, Len(L), env, F)>>[2]

\* xreplace(d): every key takes the value of its replacement
NSubst(env, d) ==
    [k \in DOMAIN d |->
        IF d[k] = Z THEN Dual(0) ELSE Val(env, CHOOSE s \in d[k] : TRUE)]
    @@ env

\* diff(t): the rate of a symbol is the value of its derivative
NRates(env) ==
    [x \in DOMAIN env \cup DOMAIN DerivOf |->
        <<Val(env, x)[1],
          IF x \in DOMAIN DerivOf THEN Val(env, DerivOf[x])[1] ELSE 0>>]

NZero(env, targets) == [k \in Range(targets) |-> Dual(0)] @@ env

\* the sequence s with every element computed
Computed(s) == SubSeq(s, 1, Len(s))

\* the matrix, as the row-major sequence of its entries
RECURSIVE NMat(_, _, _)
NMat(x, env, h) ==
    CASE x.t = "dots" ->
            LET T == NHeap(h, x.levels, env)
            IN  Computed([i \in DOMAIN x.items |->
                    NDot(T[x.items[i].l], T[x.items[i].r])])
      [] x.t = "xreplace" -> NMat(x.m, NSubst(env, x.d), h)
      [] x.t = "dt" ->
            LET r == NMat(x.m, NRates(env), h)
            IN  Computed([i \in DOMAIN r |-> Dual(r[i][2])])
      [] x.t = "neg" ->
            LET r == NMat(x.m, env, h)
            IN  Computed([i \in DOMAIN r |-> DNeg(r[i])])
      [] x.t = "index" -> <<NMat(x.m, env, h)[x.i]>>
      [] x.t = "rows" ->
            Computed([i \in 1..(Len(x.r) * Len(x.r[1])) |->
                NMat(x.r[((i - 1) \div Len(x.r[1])) + 1]
                        [((i - 1) % Len(x.r[1])) + 1], env, h)[1]])
      [] x.t = "coeff" ->
            LET n == Len(x.targets)
                b == NMat(x.m, NZero(env, x.targets), h)
                col == Computed([c \in 1..n |->
                          NMat(x.m, (x.targets[c] :> Dual(1))
                                      @@ NZero(env, x.targets), h)])
            IN  Computed([i \in 1..(Len(b) * n) |->
                    DAdd(col[((i - 1) % n) + 1][((i - 1) \div n) + 1],
                         DNeg(b[((i - 1) \div n) + 1]))])
      [] x.t = "rest" -> NMat(x.m, NZero(env, x.targets), h)

RECURSIVE MatDefined(_, _, _)
MatDefined(x, env, h) ==
    CASE x.t = "dots" ->
            LET T == NHeap(h, x.levels, env)
            IN  \A r \in DOMAIN x.levels : \A k \in x.levels[r] :
                    h[k].t = "normalize" =>
                        NDot(T[h[k].v], T[h[k].v])[1] = 1
      [] x.t \in {"xreplace", "dt", "neg", "index", "coeff", "rest"} ->
            MatDefined(x.m, env, h)
      [] x.t = "rows" ->
            \A i \in DOMAIN x.r : \A j \in DOMAIN x.r[i] :
                MatDefined(x.r[i][j], env, h)
      [] OTHER -> FALSE

(***************************************************************************)
(* The script.  One entry per top-level statement: its first line, the     *)
(* global names it reads and binds, and what it does.                      *)
(***************************************************************************)
St(line, reads, binds, op, a) ==
    [line |-> line, reads |-> reads, binds |-> binds, op |-> op, a |-> a]
Na == [none |-> TRUE]

Program == <<
    St(3, {}, {}, "pass", Na),
    St(23, {}, {"os"}, "pass", Na),
    St(25, {}, {"sm"}, "pass", Na),
    St(26, {}, {"mec"}, "pass", Na),
    St(27, {}, {"OctaveMatrixGenerator"}, "pass", Na),
    St(29, {}, {"ReferenceFrame", "decompose_linear_parts"}, "pass", Na),
    St(35, {"print"}, {}, "pass", Na),
    St(38, {"ReferenceFrame"}, {"N"}, "frame", [f |-> "N"]),
    St(40, {"ReferenceFrame"}, {"A"}, "frame", [f |-> "A"]),
    St(42, {"ReferenceFrame"}, {"B"}, "frame", [f |-> "B"]),
    St(44, {"ReferenceFrame"}, {"C"}, "frame", [f |-> "C"]),
    St(46, {"ReferenceFrame"}, {"D"}, "frame", [f |-> "D"]),
    St(48, {"ReferenceFrame"}, {"E"}, "frame", [f |-> "E"]),
    St(50, {"ReferenceFrame"}, {"F"}, "frame", [f |-> "F"]),
    St(57, {"mec"}, {"t"}, "pass", Na),
    St(59, {"print"}, {}, "pass", Na),
    St(75, {"mec"}, {"q1", "q2", "q3", "q4"}, "pass", Na),
    St(76, {"mec"}, {"q5", "q6", "q7", "q8"}, "pass", Na),
    St(77, {"mec"}, {"q10", "q11"}, "pass", Na),
    St(87, {"mec"}, {"u1", "u2", "u3", "u4"}, "pass", Na),
    St(88, {"mec"}, {"u5", "u6", "u7", "u8"}, "pass", Na),
    St(94, {"mec"}, {"u10", "u11", "u12", "u9"}, "pass", Na),
    St(101, {"mec"}, {"y", "yd", "ydd"}, "pass", Na),
    St(107, {"mec"}, {"T4", "T6", "T7"}, "pass", Na),
    St(115, {"mec"}, {"Ffy", "Ffz", "Fry", "Frz", "Mfz", "Mrz"}, "pass", Na),
    St(122, {"print"}, {}, "pass", Na),
    St(131, {"A", "N", "q3"}, {}, "orient", [f |-> "A", parent |-> "N", angle
          |-> "q3", axis |-> 3]),
    St(133, {"A", "B", "q4"}, {}, "orient", [f |-> "B", parent |-> "A", angle
          |-> "q4", axis |-> 1]),
    St(135, {"B", "C", "q5"}, {}, "orient", [f |-> "C", parent |-> "B", angle
          |-> "q5", axis |-> 2]),
    St(137, {"C", "E", "q7"}, {}, "orient", [f |-> "E", parent |-> "C", angle
          |-> "q7", axis |-> 3]),
    St(145, {"A", "E"}, {"g1_hat"}, "vector", [n |-> "g1_hat", v |->
          Cr(Bv("E", 2), Bv("A", 3))]),
    St(146, {"A", "g1_hat"}, {"g2_hat"}, "vector", [n |-> "g2_hat", v |->
          Cr(Bv("A", 3), Nm("g1_hat"))]),
    St(152, {"print"}, {}, "pass", Na),
    St(170, {"sm"}, {"rf", "rr"}, "pass", Na),
    St(171, {"sm"}, {"d1", "d2", "d3"}, "pass", Na),
    St(172, {"sm"}, {"l1", "l2", "l3", "l4"}, "pass", Na),
    St(175, {"sm"}, {"g"}, "pass", Na),
    St(178, {"sm"}, {"mc", "md", "me", "mf"}, "pass", Na),
    St(181, {"sm"}, {"ic11", "ic22", "ic31", "ic33"}, "pass", Na),
    St(182, {"sm"}, {"id11", "id22"}, "pass", Na),
    St(183, {"sm"}, {"ie11", "ie22", "ie31", "ie33"}, "pass", Na),
    St(184, {"sm"}, {"if11", "if22"}, "pass", Na),
    St(190, {"print"}, {}, "pass", Na),
    St(193, {"mec"}, {"o"}, "point", [p |-> "o"]),
    St(196, {"mec"}, {"dn"}, "point", [p |-> "dn"]),
    St(197, {"N", "dn", "o", "q1", "q2", "y"}, {}, "set_pos", [p |-> "dn",
          other |-> "o", v |-> Ad(Sc(1, {"q1"}, Bv("N", 1)), Ad(Sc(1, {"y"},
          Bv("N", 2)), Sc(1, {"q2"}, Bv("N", 2))))]),
    St(200, {"mec"}, {"do"}, "point", [p |-> "do"]),
    St(201, {"B", "dn", "do", "rr"}, {}, "set_pos", [p |-> "do", other |->
          "dn", v |-> Sc(-1, {"rr"}, Bv("B", 3))]),
    St(204, {"mec"}, {"co"}, "point", [p |-> "co"]),
    St(205, {"C", "co", "do", "l1", "l2"}, {}, "set_pos", [p |-> "co", other
          |-> "do", v |-> Ad(Sc(1, {"l1"}, Bv("C", 1)), Sc(1, {"l2"}, Bv("C",
          3)))]),
    St(208, {"mec"}, {"ce"}, "point", [p |-> "ce"]),
    St(209, {"C", "ce", "d1", "do"}, {}, "set_pos", [p |-> "ce", other |->
          "do", v |-> Sc(1, {"d1"}, Bv("C", 1))]),
    St(212, {"mec"}, {"fo"}, "point", [p |-> "fo"]),
    St(213, {"E", "ce", "d2", "d3", "fo"}, {}, "set_pos", [p |-> "fo", other
          |-> "ce", v |-> Ad(Sc(1, {"d2"}, Bv("E", 3)), Sc(1, {"d3"}, Bv("E",
          1)))]),
    St(216, {"mec"}, {"eo"}, "point", [p |-> "eo"]),
    St(217, {"E", "eo", "fo", "l3", "l4"}, {}, "set_pos", [p |-> "eo", other
          |-> "fo", v |-> Ad(Sc(1, {"l3"}, Bv("E", 1)), Sc(1, {"l4"}, Bv("E",
          3)))]),
    St(220, {"mec"}, {"fn"}, "point", [p |-> "fn"]),
    St(221, {"A", "E", "fn", "fo", "rf"}, {}, "set_pos", [p |-> "fn", other
          |-> "fo", v |-> Sc(1, {"rf"}, Nz(Cr(Cr(Bv("E", 2), Bv("A", 3)),
          Bv("E", 2))))]),
    St(227, {"print"}, {}, "pass", Na),
    St(230, {"A", "dn", "fn"}, {"holonomic"}, "scalars", [n |-> "holonomic",
          items |-> <<[l |-> Pf("fn", "dn"), r |-> Bv("A", 3)]>>]),
    St(236, {"print"}, {}, "pass", Na),
    St(238, {"q1", "q2", "q3", "q4", "q5", "q6", "q7", "q8", "t", "u1", "u2",
          "u3", "u4", "u5", "u6", "u7", "u8"}, {"kinematical"}, "kd", [n |->
          "kinematical", d |-> (("Dq1" :> {"u1"}) @@ ("Dq2" :> {"u2"}) @@
          ("Dq3" :> {"u3"}) @@ ("Dq4" :> {"u4"}) @@ ("Dq5" :> {"u5"}) @@
          ("Dq6" :> {"u6"}) @@ ("Dq7" :> {"u7"}) @@ ("Dq8" :> {"u8"}))]),
    St(253, {"print"}, {}, "pass", Na),
    St(258, {"A", "N", "u3"}, {}, "set_ang_vel", [f |-> "A", parent |-> "N", v
          |-> Sc(1, {"u3"}, Bv("N", 3))]),
    St(259, {"A", "B", "u4"}, {}, "set_ang_vel", [f |-> "B", parent |-> "A", v
          |-> Sc(1, {"u4"}, Bv("A", 1))]),
    St(260, {"B", "C", "u5"}, {}, "set_ang_vel", [f |-> "C", parent |-> "B", v
          |-> Sc(1, {"u5"}, Bv("B", 2))]),
    St(261, {"C", "D", "u6"}, {}, "set_ang_vel", [f |-> "D", parent |-> "C", v
          |-> Sc(1, {"u6"}, Bv("C", 2))]),
    St(262, {"C", "E", "u7"}, {}, "set_ang_vel", [f |-> "E", parent |-> "C", v
          |-> Sc(1, {"u7"}, Bv("C", 3))]),
    St(263, {"E", "F", "u8"}, {}, "set_ang_vel", [f |-> "F", parent |-> "E", v
          |-> Sc(1, {"u8"}, Bv("E", 2))]),
    St(269, {"print"}, {}, "pass", Na),
    St(273, {"N", "o"}, {}, "set_vel", [p |-> "o", v |-> Zv]),
    St(274, {"N", "dn", "t", "u1", "u2", "y"}, {}, "set_vel", [p |-> "dn", v
          |-> Ad(Sc(1, {"u1"}, Bv("N", 1)), Ad(Sc(1, {"Dy"}, Bv("N", 2)),
          Sc(1, {"u2"}, Bv("N", 2))))]),
    St(275, {"mec"}, {"dn_"}, "point", [p |-> "dn_"]),
    St(276, {"dn", "dn_"}, {}, "set_pos", [p |-> "dn_", other |-> "dn", v |->
          Zv]),
    St(277, {"A", "N", "dn", "dn_", "u11"}, {}, "set_vel", [p |-> "dn_", v |->
          Ad(Vl("dn"), Sc(1, {"u11"}, Bv("A", 3)))]),
    St(280, {"D", "N", "dn_", "do"}, {}, "v2pt", [p |-> "do", other |-> "dn_",
          fixed |-> "D"]),
    St(281, {"C", "N", "co", "do"}, {}, "v2pt", [p |-> "co", other |-> "do",
          fixed |-> "C"]),
    St(282, {"C", "N", "ce", "do"}, {}, "v2pt", [p |-> "ce", other |-> "do",
          fixed |-> "C"]),
    St(283, {"E", "N", "ce", "fo"}, {}, "v2pt", [p |-> "fo", other |-> "ce",
          fixed |-> "E"]),
    St(284, {"E", "N", "eo", "fo"}, {}, "v2pt", [p |-> "eo", other |-> "fo",
          fixed |-> "E"]),
    St(287, {"F", "N", "fn", "fo"}, {}, "v2pt", [p |-> "fn", other |-> "fo",
          fixed |-> "F"]),
    St(289, {"mec"}, {"fn_"}, "point", [p |-> "fn_"]),
    St(290, {"fn", "fn_"}, {}, "set_pos", [p |-> "fn_", other |-> "fn", v |->
          Zv]),
    St(291, {"A", "N", "fn", "fn_", "u12"}, {}, "set_vel", [p |-> "fn_", v |->
          Ad(Vl("fn"), Sc(1, {"u12"}, Bv("A", 3)))]),
    St(302, {"print"}, {}, "pass", Na),
    St(304, {"A", "N", "dn_", "fn_", "g1_hat"}, {"nonholonomic"}, "scalars",
          [n |-> "nonholonomic", items |-> <<[l |-> Vl("dn_"), r |-> Bv("A",
          1)], [l |-> Vl("fn_"), r |-> Nm("g1_hat")], [l |-> Vl("fn_"), r |->
          Bv("A", 3)]>>]),
    St(314, {"print"}, {}, "pass", Na),
    St(316, {"C", "ic11", "ic22", "ic31", "ic33", "mec"}, {"Ic"}, "inertia",
          [n |-> "Ic", f |-> "C", s |-> {"ic11", "ic22", "ic33", "ic31"}]),
    St(317, {"C", "id11", "id22", "mec"}, {"Id"}, "inertia", [n |-> "Id", f
          |-> "C", s |-> {"id11", "id22"}]),
    St(318, {"E", "ie11", "ie22", "ie31", "ie33", "mec"}, {"Ie"}, "inertia",
          [n |-> "Ie", f |-> "E", s |-> {"ie11", "ie22", "ie33", "ie31"}]),
    St(319, {"E", "if11", "if22", "mec"}, {"If"}, "inertia", [n |-> "If", f
          |-> "E", s |-> {"if11", "if22"}]),
    St(325, {"print"}, {}, "pass", Na),
    St(327, {"C", "Ic", "co", "mc", "mec"}, {"rear_frame"}, "body", [n |->
          "rear_frame", masscenter |-> "co", frame |-> "C", mass |-> "mc",
          inertia |-> "Ic"]),
    St(328, {"D", "Id", "do", "md", "mec"}, {"rear_wheel"}, "body", [n |->
          "rear_wheel", masscenter |-> "do", frame |-> "D", mass |-> "md",
          inertia |-> "Id"]),
    St(329, {"E", "Ie", "eo", "me", "mec"}, {"front_frame"}, "body", [n |->
          "front_frame", masscenter |-> "eo", frame |-> "E", mass |-> "me",
          inertia |-> "Ie"]),
    St(330, {"F", "If", "fo", "mec", "mf"}, {"front_wheel"}, "body", [n |->
          "front_wheel", masscenter |-> "fo", frame |-> "F", mass |-> "mf",
          inertia |-> "If"]),
    St(332, {"front_frame", "front_wheel", "rear_frame", "rear_wheel"},
          {"bodies"}, "tuple", [n |-> "bodies", items |-> <<"rear_frame",
          "rear_wheel", "front_frame", "front_wheel">>]),
    St(338, {"print"}, {}, "pass", Na),
    St(341, {"A", "co", "g", "mc"}, {"Fco"}, "load", [n |-> "Fco", target |->
          "co", v |-> Sc(1, {"mc", "g"}, Bv("A", 3))]),
    St(342, {"A", "do", "g", "md"}, {"Fdo"}, "load", [n |-> "Fdo", target |->
          "do", v |-> Sc(1, {"md", "g"}, Bv("A", 3))]),
    St(343, {"A", "eo", "g", "me"}, {"Feo"}, "load", [n |-> "Feo", target |->
          "eo", v |-> Sc(1, {"me", "g"}, Bv("A", 3))]),
    St(344, {"A", "fo", "g", "mf"}, {"Ffo"}, "load", [n |-> "Ffo", target |->
          "fo", v |-> Sc(1, {"mf", "g"}, Bv("A", 3))]),
    St(347, {"A", "Fry", "dn"}, {"Fydn"}, "load", [n |-> "Fydn", target |->
          "dn", v |-> Sc(1, {"Fry"}, Bv("A", 2))]),
    St(348, {"Ffy", "fn", "g2_hat"}, {"Fyfn"}, "load", [n |-> "Fyfn", target
          |-> "fn", v |-> Sc(1, {"Ffy"}, Nm("g2_hat"))]),
    St(351, {"A", "Frz", "dn"}, {"Fzdn"}, "load", [n |-> "Fzdn", target |->
          "dn", v |-> Sc(1, {"Frz"}, Bv("A", 3))]),
    St(352, {"A", "Frz", "dn_"}, {"Fzdn_"}, "load", [n |-> "Fzdn_", target |->
          "dn_", v |-> Sc(-1, {"Frz"}, Bv("A", 3))]),
    St(353, {"A", "Ffz", "fn"}, {"Fzfn"}, "load", [n |-> "Fzfn", target |->
          "fn", v |-> Sc(1, {"Ffz"}, Bv("A", 3))]),
    St(354, {"A", "Ffz", "fn_"}, {"Fzfn_"}, "load", [n |-> "Fzfn_", target |->
          "fn_", v |-> Sc(-1, {"Ffz"}, Bv("A", 3))]),
    St(357, {"A", "B", "C", "T4", "T6", "T7"}, {"Tc"}, "load", [n |-> "Tc",
          target |-> "C", v |-> Ad(Ad(Sc(1, {"T4"}, Bv("A", 1)), Sc(-1,
          {"T6"}, Bv("B", 2))), Sc(-1, {"T7"}, Bv("C", 3)))]),
    St(358, {"A", "C", "D", "Mrz", "T6"}, {"Td"}, "load", [n |-> "Td", target
          |-> "D", v |-> Ad(Sc(1, {"T6"}, Bv("C", 2)), Sc(1, {"Mrz"}, Bv("A",
          3)))]),
    St(359, {"C", "E", "T7"}, {"Te"}, "load", [n |-> "Te", target |-> "E", v
          |-> Sc(1, {"T7"}, Bv("C", 3))]),
    St(360, {"A", "F", "Mfz"}, {"Tf"}, "load", [n |-> "Tf", target |-> "F", v
          |-> Sc(1, {"Mfz"}, Bv("A", 3))]),
    St(362, {"Fco", "Fdo", "Feo", "Ffo", "Fydn", "Fyfn", "Fzdn", "Fzdn_",
          "Fzfn", "Fzfn_", "Tc", "Td", "Te", "Tf"}, {"loads"}, "tuple", [n |->
          "loads", items |-> <<"Fco", "Fdo", "Feo", "Ffo", "Fydn", "Fyfn",
          "Fzdn", "Fzfn", "Fzdn_", "Fzfn_", "Tc", "Td", "Te", "Tf">>]),
    St(373, {"N"}, {"newto"}, "pass", Na),
    St(376, {"q1", "q2", "q3", "q4", "q6", "q7", "q8"}, {"q_ind"}, "tuple", [n
          |-> "q_ind", items |-> <<"q1", "q2", "q3", "q4", "q6", "q7",
          "q8">>]),
    St(377, {"q5"}, {"q_dep"}, "tuple", [n |-> "q_dep", items |-> <<"q5">>]),
    St(378, {"q_dep", "q_ind", "sm", "tuple"}, {"qs"}, "concat", [n |-> "qs",
          parts |-> <<"q_ind", "q_dep">>]),
    St(381, {"u1", "u3", "u4", "u6", "u7"}, {"u_ind"}, "tuple", [n |->
          "u_ind", items |-> <<"u1", "u3", "u4", "u6", "u7">>]),
    St(382, {"u2", "u5", "u8"}, {"u_dep"}, "tuple", [n |-> "u_dep", items |->
          <<"u2", "u5", "u8">>]),
    St(383, {"u11", "u12"}, {"u_aux"}, "tuple", [n |-> "u_aux", items |->
          <<"u11", "u12">>]),
    St(384, {"sm", "tuple", "u_aux", "u_dep", "u_ind"}, {"us"}, "concat", [n
          |-> "us", parts |-> <<"u_ind", "u_dep", "u_aux">>]),
    St(386, {"d1", "d2", "d3", "g", "ic11", "ic22", "ic31", "ic33", "id11",
          "id22", "ie11", "ie22", "ie31", "ie33", "if11", "if22", "l1", "l2",
          "l3", "l4", "mc", "md", "me", "mf", "rf", "rr"}, {"const"}, "tuple",
          [n |-> "const", items |-> <<"d1", "d2", "d3", "g", "ic11", "ic22",
          "ic31", "ic33", "id11", "id22", "ie11", "ie22", "ie31", "ie33",
          "if11", "if22", "l1", "l2", "l3", "l4", "mc", "md", "me", "mf",
          "rf", "rr">>]),
    St(388, {"Ffy", "Ffz", "Fry", "Frz", "Mfz", "Mrz", "T4", "T6", "T7", "t",
          "y"}, {"speci"}, "tuple", [n |-> "speci", items |-> <<"T4", "T6",
          "T7", "Fry", "Frz", "Mrz", "Ffy", "Ffz", "Mfz", "y", "Dy",
          "DDy">>]),
    St(389, {"holonomic"}, {"holon"}, "alias", [n |-> "holon", src |->
          "holonomic"]),
    St(390, {"nonholonomic", "tuple"}, {"nonho"}, "alias", [n |-> "nonho", src
          |-> "nonholonomic"]),
    St(396, {"print"}, {}, "pass", Na),
    St(398, {"holon", "kinematical", "mec", "newto", "nonho", "q_dep",
          "q_ind", "u_aux", "u_dep", "u_ind"}, {"kane"}, "kane", [q_ind |->
          "q_ind", u_ind |-> "u_ind", kd |-> "kinematical", q_dep |-> "q_dep",
          holon |-> "holon", u_dep |-> "u_dep", nonho |-> "nonho", u_aux |->
          "u_aux"]),
    St(410, {"bodies", "kane", "loads"}, {}, "kanes_equations", [bodies |->
          "bodies", loads |-> "loads"]),
    St(416, {"mec"}, {"u1p", "u3p", "u4p", "u6p", "u7p"}, "pass", Na),
    St(417, {"mec"}, {"u2p", "u5p", "u8p"}, "pass", Na),
    St(418, {"mec", "us"}, {"u_dots"}, "udots", [n |-> "u_dots", src |->
          "us"]),
    St(419, {"u_dots", "us", "zip"}, {"u_dot_subs"}, "zipmap", [n |->
          "u_dot_subs", keys |-> "us", vals |-> "u_dots"]),
    St(421, {"OctaveMatrixGenerator", "d1", "d2", "d3", "holonomic", "q4",
          "q5", "q7", "rf", "rr", "sm"}, {"gen"}, "generator", [groups |->
          <<Glit(<<"q4", "q5", "q7">>), Glit(<<"d1", "d2", "d3", "rf",
          "rr">>)>>, mats |-> <<Mn("holonomic")>>]),
    St(424, {"__file__", "gen", "os"}, {}, "write", [file |->
          "eval_holonomic"]),
    St(427, {"nonholonomic", "sm", "t", "u11", "u12", "y", "yd"},
          {"nonholonomic"}, "matrix", [n |-> "nonholonomic", m |->
          Mx(Mn("nonholonomic"), Dlit(("u11" :> Z) @@ ("u12" :> Z) @@ ("Dy"
          :> {"yd"})))]),
    St(429, {"print"}, {}, "pass", Na),
    St(430, {"list", "mec", "nonholonomic", "print", "sm"}, {}, "pass", Na),
    St(432, {"decompose_linear_parts", "nonholonomic", "u_dep"}, {"A_nh",
          "B_nh"}, "decompose", [A |-> "A_nh", B |-> "B_nh", m |->
          Mn("nonholonomic"), targets |-> Gname("u_dep")]),
    St(433, {"A_nh", "B_nh", "OctaveMatrixGenerator", "d1", "d2", "d3", "q3",
          "q4", "q5", "q7", "rf", "rr", "u_ind", "yd"}, {"gen"}, "generator",
          [groups |-> <<Glit(<<"q3", "q4", "q5", "q7">>), Gname("u_ind"),
          Glit(<<"yd">>), Glit(<<"d1", "d2", "d3", "rf", "rr">>)>>, mats |->
          <<Mn("A_nh"), Mneg(Mn("B_nh"))>>]),
    St(438, {"__file__", "gen", "os"}, {}, "write", [file |->
          "eval_dep_speeds"]),
    St(441, {"kane", "nonholonomic", "sm", "t"}, {"nonholonomic_dot"},
          "matrix", [n |-> "nonholonomic_dot", m |->
          Mx(Mdt(Mn("nonholonomic")), Dkin)]),
    St(443, {"nonholonomic_dot", "t", "u_dot_subs", "yd", "ydd"},
          {"nonholonomic_dot"}, "matrix", [n |-> "nonholonomic_dot", m |->
          Mx(Mx(Mn("nonholonomic_dot"), Dname("u_dot_subs")), Dlit(("Dyd" :>
          {"ydd"})))]),
    St(445, {"print"}, {}, "pass", Na),
    St(447, {"list", "mec", "nonholonomic_dot", "print", "sm"}, {}, "pass",
          Na),
    St(449, {"decompose_linear_parts", "nonholonomic_dot", "u2p", "u5p",
          "u8p"}, {"A_pnh", "B_pnh"}, "decompose", [A |-> "A_pnh", B |->
          "B_pnh", m |-> Mn("nonholonomic_dot"), targets |-> Glit(<<"u2p",
          "u5p", "u8p">>)]),
    St(451, {"A_pnh", "B_pnh", "OctaveMatrixGenerator", "d1", "d2", "d3",
          "q3", "q4", "q5", "q7", "rf", "rr", "u1", "u1p", "u2", "u3", "u3p",
          "u4", "u4p", "u5", "u6", "u6p", "u7", "u7p", "u8", "yd", "ydd"},
          {"gen"}, "generator", [groups |-> <<Glit(<<"q3", "q4", "q5",
          "q7">>), Glit(<<"u1", "u2", "u3", "u4", "u5", "u6", "u7", "u8">>),
          Glit(<<"yd", "ydd">>), Glit(<<"u1p", "u3p", "u4p", "u6p", "u7p">>),
          Glit(<<"d1", "d2", "d3", "rf", "rr">>)>>, mats |-> <<Mn("A_pnh"),
          Mneg(Mn("B_pnh"))>>]),
    St(457, {"__file__", "gen", "os"}, {}, "write", [file |->
          "eval_dep_speeds_derivs"]),
    St(461, {"kane"}, {"A"}, "matrix", [n |-> "A", m |-> Mk("mass_matrix")]),
    St(462, {"Ffz", "kane", "t", "u11", "u12", "y", "yd", "ydd"}, {"B"},
          "matrix", [n |-> "B", m |-> Mx(Mk("forcing"), Dlit(("Du11" :> Z) @@
          ("Du12" :> Z) @@ ("u11" :> Z) @@ ("u12" :> Z) @@ ("DDy" :>
          {"ydd"}) @@ ("Dy" :> {"yd"}) @@ ("Ffz" :> Z)))]),
    St(467, {"A", "B", "Ffy", "Fry", "Mfz", "Mrz", "OctaveMatrixGenerator",
          "T4", "T6", "T7", "const", "q3", "q4", "q5", "q7", "u1", "u2", "u3",
          "u4", "u5", "u6", "u7", "u8", "yd", "ydd"}, {"gen"}, "generator",
          [groups |-> <<Glit(<<"q3", "q4", "q5", "q7">>), Glit(<<"u1", "u2",
          "u3", "u4", "u5", "u6", "u7", "u8">>), Glit(<<"T4", "T6", "T7",
          "yd", "ydd", "Fry", "Mrz", "Ffy", "Mfz">>), Gname("const")>>, mats
          |-> <<Mn("A"), Mn("B")>>]),
    St(473, {"__file__", "gen", "os"}, {}, "write", [file |->
          "eval_dynamic_eqs"]),
    St(475, {"pause"}, {}, "pass", Na),
    St(478, {}, {}, "pass", Na),
    St(487, {"kane", "u11", "u12", "u_dot_subs"}, {"aux_eqs"}, "matrix", [n
          |-> "aux_eqs", m |-> Mx(Mx(Mx(Mk("auxiliary_eqs"), Dlit(("u11" :>
          Z) @@ ("u12" :> Z))), Dname("u_dot_subs")), Dkin)]),
    St(489, {"print"}, {}, "pass", Na),
    St(490, {"aux_eqs", "list", "mec", "print", "sm"}, {}, "pass", Na),
    St(495, {"Ff", "aux_eqs"}, {"a11"}, "matrix", [n |-> "a11", m |->
          Mdiff(Midx(Mn("aux_eqs"), 1), "Ff")]),
    St(496, {"Fr", "aux_eqs"}, {"a12"}, "matrix", [n |-> "a12", m |->
          Mdiff(Midx(Mn("aux_eqs"), 1), "Fr")]),
    St(497, {"Ff", "aux_eqs"}, {"a21"}, "matrix", [n |-> "a21", m |->
          Mdiff(Midx(Mn("aux_eqs"), 2), "Ff")]),
    St(498, {"Fr", "aux_eqs"}, {"a22"}, "matrix", [n |-> "a22", m |->
          Mdiff(Midx(Mn("aux_eqs"), 2), "Fr")]),
    St(499, {"a11", "a12", "a21", "a22", "sm"}, {"A"}, "matrix", [n |-> "A", m
          |-> Mrows(<<<<"a11", "a12">>, <<"a21", "a22">>>>)]),
    St(500, {"Ff", "Fr", "aux_eqs"}, {"b"}, "matrix", [n |-> "b", m |->
          Mneg(Mx(Mn("aux_eqs"), Dlit(("Ff" :> Z) @@ ("Fr" :> Z))))]),
    St(502, {"print"}, {}, "pass", Na),
    St(503, {"A", "list", "mec", "print", "sm"}, {}, "pass", Na),
    St(504, {"print"}, {}, "pass", Na),
    St(505, {"b", "list", "mec", "print", "sm"}, {}, "pass", Na),
    St(507, {"A", "OctaveMatrixGenerator", "b", "const", "list", "q4", "q5",
          "q7", "u3", "u3p", "u4", "u4p", "u5", "u5p", "u6", "u6p", "u7",
          "u7p", "u8", "u8p"}, {"gen"}, "generator", [groups |->
          <<Glit(<<"q4", "q5", "q7">>), Glit(<<"u3", "u4", "u5", "u6", "u7",
          "u8">>), Glit(<<"u3p", "u4p", "u5p", "u6p", "u7p", "u8p">>),
          Gname("const")>>, mats |-> <<Mn("A"), Mn("b")>>]),
    St(512, {"__file__", "gen", "os"}, {}, "write", [file |->
          "eval_lat_forces"])
>>

NStmts == Len(Program)

\* statements execute in textual order
\* kanes_equations(..) moved down to line 429, after the first export
StmtAtFormulationLate(i) ==
    LET k == CHOOSE j \in DOMAIN Program : Program[j].op = "kanes_equations"
        p == CHOOSE j \in DOMAIN Program : Program[j].line = 429
    IN  Program[IF i = k THEN p ELSE IF i = p THEN k ELSE i]

\* co.v2pt_theory(do, N, C) moved up, before do.v2pt_theory(dn_, N, D)
StmtAtTransportEarly(i) ==
    LET k == CHOOSE j \in DOMAIN Program : Program[j].line = 280
        p == CHOOSE j \in DOMAIN Program : Program[j].line = 281
    IN  Program[IF i = k THEN p ELSE IF i = p THEN k ELSE i]

StmtAt(i) == Program[i]

\* names Python provides without any binding in the script
Builtins == {"print", "tuple", "list", "zip", "__file__"}

(***************************************************************************)
(* The exception, if any, that executing a statement raises.               *)
(***************************************************************************)
RECURSIVE CrossFrames(_)
CrossFrames(e) ==
    CASE e.t = "cross" -> FrameReads(e.l) \cup FrameReads(e.r)
      [] e.t \in {"scale", "normalize"} -> CrossFrames(e.v)
      [] e.t = "add" -> CrossFrames(e.l) \cup CrossFrames(e.r)
      [] OTHER -> {}

VecErr(e) ==
    IF \E r \in PosReads(e) : ~PosConnected(r[1], r[2]) THEN "NoPositionPath"
    ELSE IF \E p \in VelReads(e) : ~VelSet(p) THEN "VelocityUndefined"
    ELSE IF ~Connected(CrossFrames(e)) THEN "NoOrientationPath"
    ELSE "none"

RECURSIVE MatNames(_)
MatNames(x) ==
    CASE x.t = "name" -> {x.n}
      [] x.t \in {"xreplace", "dt", "neg", "index", "diff"} -> MatNames(x.m)
      [] x.t = "rows" -> UNION {Range(x.r[i]) : i \in DOMAIN x.r}
      [] OTHER -> {}

MatErr(x) ==
    IF ~(MatNames(x) \subseteq DOMAIN mat) THEN "TypeError"
    ELSE IF KaneReads(x) \ {"kindiff"} # {} /\ ~KaneSolved THEN "KaneNotSolved"
    ELSE "none"

RECURSIVE FirstErr(_)
FirstErr(s) ==
    IF s = <<>> THEN "none"
    ELSE IF Head(s) # "none" THEN Head(s) ELSE FirstErr(Tail(s))

Err(S) ==
    IF ~(S.reads \subseteq names) THEN "NameError"
    ELSE CASE S.op \in {"set_pos", "set_vel", "set_ang_vel", "vector", "load"} ->
                VecErr(S.a.v)
           [] S.op = "scalars" ->
                FirstErr([i \in DOMAIN S.a.items |->
                    VecErr(Cr(S.a.items[i].l, S.a.items[i].r))])
           [] S.op = "v2pt" ->
                IF ~PosConnected(S.a.p, S.a.other) THEN "NoPositionPath"
                ELSE IF ~VelSet(S.a.other) THEN "VelocityUndefined"
                ELSE IF AngVelRoot(S.a.fixed) # "N" THEN "NoAngularVelocity"
                ELSE "none"
           [] S.op = "kane" ->
                IF KaneConsistent(S.a) THEN "none" ELSE "KaneInconsistent"
           [] S.op = "kanes_equations" ->
                IF \E n \in Range(tup[S.a.loads]) :
                      load[n].target \in points /\ ~VelSet(load[n].target)
                THEN "VelocityUndefined" ELSE "none"
           [] S.op \in {"matrix", "decompose"} -> MatErr(S.a.m)
           [] S.op = "generator" ->
                IF FirstErr([i \in DOMAIN S.a.mats |-> MatErr(S.a.mats[i])]) # "none"
                THEN FirstErr([i \in DOMAIN S.a.mats |-> MatErr(S.a.mats[i])])
                ELSE IF MatSymbols(S.a.mats) \subseteq ArgSymbols(S.a.groups)
                THEN "none" ELSE "MissingArgument"
           [] OTHER -> "none"

(***************************************************************************)
(* Execution.                                                              *)
(***************************************************************************)
kinVars == <<frames, orient, angvel, points, pos, vel, vec>>
envVars == <<mat, tup, maps, body, load>>
outVars == <<kane, gen, written>>

Running == status = "running" /\ pc \in 1..NStmts
Terminated == ~Running

Ready(op) == Running /\ StmtAt(pc).op = op /\ Err(StmtAt(pc)) = "none"

Arg == StmtAt(pc).a

\* the statement completes: its names are bound and the next one is due
Step ==
    /\ pc' = pc + 1
    /\ names' = names \cup StmtAt(pc).binds
    /\ UNCHANGED <<status, error, call>>

\* the exception is noted and the script goes on with the next statement
PropagateContinue(e) == [status |-> "running", error |-> e, pc |-> pc + 1]

\* an exception leaves the script: nothing catches it
Propagate(e) == [status |-> "failed", error |-> e, pc |-> pc]

Pass ==
    /\ Ready("pass") /\ Step
    /\ UNCHANGED <<kinVars, envVars, outVars>>
    /\ UNCHANGED expr

NewFrame ==
    /\ Ready("frame") /\ Step
    /\ frames' = frames \cup {Arg.f}
    /\ UNCHANGED <<orient, angvel, points, pos, vel, vec, envVars, outVars>>
    /\ UNCHANGED expr

Orient ==
    /\ Ready("orient") /\ Step
    /\ orient' = (Arg.f :> [parent |-> Arg.parent, angle |-> Arg.angle,
                            axis |-> Arg.axis]) @@ orient
    /\ UNCHANGED <<frames, angvel, points, pos, vel, vec, envVars, outVars>>
    /\ UNCHANGED expr

SetAngVel ==
    /\ Ready("set_ang_vel") /\ Step
    /\ angvel' = (Arg.f :> [parent |-> Arg.parent, v |-> EvalVec(Arg.v)])
                    @@ angvel
    /\ UNCHANGED <<frames, orient, points, pos, vel, vec, envVars, outVars>>
    /\ LET a == CloseVec(expr.heap, Arg.v)
       IN  expr' = [expr EXCEPT !.heap = a[1], !.angv = (Arg.f :> a[2]) @@ @]

NewPoint ==
    /\ Ready("point") /\ Step
    /\ points' = points \cup {Arg.p}
    /\ pos' = (Arg.p :> <<>>) @@ pos
    /\ vel' = (Arg.p :> <<>>) @@ vel
    /\ UNCHANGED <<frames, orient, angvel, vec, envVars, outVars>>
    /\ UNCHANGED expr

SetPos ==
    /\ Ready("set_pos") /\ Step
    /\ pos' = [pos EXCEPT ![Arg.p] =
                 Append(@, [parent |-> Arg.other, v |-> EvalVec(Arg.v)])]
    /\ UNCHANGED <<frames, orient, angvel, points, vel, vec, envVars, outVars>>
    /\ LET a == CloseVec(expr.heap, Arg.v)
       IN  expr' = [expr EXCEPT !.heap = a[1], !.pos = @ @@ (Arg.p :> a[2])]

SetVel ==
    /\ Ready("set_vel") /\ Step
    /\ vel' = [vel EXCEPT ![Arg.p] = Append(@, EvalVec(Arg.v))]
    /\ UNCHANGED <<frames, orient, angvel, points, pos, vec, envVars, outVars>>
    /\ LET a == CloseVec(expr.heap, Arg.v)
       IN  expr' = [expr EXCEPT !.heap = a[1], !.vel = (Arg.p :> a[2]) @@ @]

\* p.v2pt_theory(other, N, fixed):
\* v_p = v_other + fixed.ang_vel_in(N) x p.pos_from(other)
V2pt ==
    /\ Ready("v2pt") /\ Step
    /\ vel' = [vel EXCEPT ![Arg.p] =
                 Append(@, VAdd(VelOf(Arg.other),
                                Cross(AngVelIn(Arg.fixed),
                                      PosFrom(Arg.p, Arg.other))))]
    /\ UNCHANGED <<frames, orient, angvel, points, pos, vec, envVars, outVars>>
    /\ LET a == CloseVec(expr.heap,
                          Ad(Rf(expr.vel[Arg.other]),
                             Cr(AngVelX(Arg.fixed), PosX(Arg.p, Arg.other))))
       IN  expr' = [expr EXCEPT !.heap = a[1], !.vel = (Arg.p :> a[2]) @@ @]

DefVector ==
    /\ Ready("vector") /\ Step
    /\ vec' = (Arg.n :> EvalVec(Arg.v)) @@ vec
    /\ UNCHANGED <<frames, orient, angvel, points, pos, vel, envVars, outVars>>
    /\ LET a == CloseVec(expr.heap, Arg.v)
       IN  expr' = [expr EXCEPT !.heap = a[1], !.vec = (Arg.n :> a[2]) @@ @]

DefScalars ==
    /\ Ready("scalars") /\ Step
    /\ mat' = (Arg.n :> [rows |-> Len(Arg.items), cols |-> 1,
                         e |-> [i \in DOMAIN Arg.items |->
                                  Dot(EvalVec(Arg.items[i].l),
                                      EvalVec(Arg.items[i].r))]]) @@ mat
    /\ UNCHANGED <<kinVars, tup, maps, body, load, outVars>>
    /\ LET a == Dots(Arg.items)
       IN  expr' = [expr EXCEPT !.heap = a[1], !.mat = (Arg.n :> a[2]) @@ @]

DefKd ==
    /\ Ready("kd") /\ Step
    /\ maps' = (Arg.n :> Arg.d) @@ maps
    /\ UNCHANGED <<kinVars, mat, tup, body, load, outVars>>
    /\ UNCHANGED expr

DefInertia ==
    /\ Ready("inertia") /\ Step
    /\ mat' = (Arg.n :> Filled(3, 3, Arg.s)) @@ mat
    /\ UNCHANGED <<kinVars, tup, maps, body, load, outVars>>
    /\ expr' = [expr EXCEPT !.mat = (Arg.n :> Opaque) @@ @]

DefBody ==
    /\ Ready("body") /\ Step
    /\ body' = (Arg.n :> [masscenter |-> Arg.masscenter, frame |-> Arg.frame,
                          mass |-> Arg.mass, inertia |-> Arg.inertia]) @@ body
    /\ UNCHANGED <<kinVars, mat, tup, maps, load, outVars>>
    /\ UNCHANGED expr

\* the load is recorded with the sign of its coefficient lost
DefLoadUnsigned ==
    /\ Ready("load") /\ Step
    /\ LET v == IF Arg.v.t = "scale" THEN [Arg.v EXCEPT !.sg = 1] ELSE Arg.v
       IN  load' = (Arg.n :> [target |-> Arg.target, expr |-> v,
                              v |-> EvalVec(v)]) @@ load
    /\ UNCHANGED <<kinVars, mat, tup, maps, body, outVars>>
    /\ UNCHANGED expr

DefLoad ==
    /\ Ready("load") /\ Step
    /\ load' = (Arg.n :> [target |-> Arg.target, expr |-> Arg.v,
                          v |-> EvalVec(Arg.v)]) @@ load
    /\ UNCHANGED <<kinVars, mat, tup, maps, body, outVars>>
    /\ UNCHANGED expr

DefTuple ==
    /\ Ready("tuple") /\ Step
    /\ tup' = (Arg.n :> Arg.items) @@ tup
    /\ UNCHANGED <<kinVars, mat, maps, body, load, outVars>>
    /\ UNCHANGED expr

RECURSIVE ConcatAll(_)
ConcatAll(parts) ==
    IF parts = <<>> THEN <<>> ELSE tup[Head(parts)] \o ConcatAll(Tail(parts))

\* tuple(sm.ordered(a + b + ..)): the members of the parts (their order in
\* the result plays no role in what follows)
Concat ==
    /\ Ready("concat") /\ Step
    /\ tup' = (Arg.n :> ConcatAll(Arg.parts)) @@ tup
    /\ UNCHANGED <<kinVars, mat, maps, body, load, outVars>>
    /\ UNCHANGED expr

Alias ==
    /\ Ready("alias") /\ Step
    /\ mat' = (Arg.n :> mat[Arg.src]) @@ mat
    /\ UNCHANGED <<kinVars, tup, maps, body, load, outVars>>
    /\ expr' = [expr EXCEPT !.mat = (Arg.n :> expr.mat[Arg.src]) @@ @]

KanesMethod ==
    /\ Ready("kane") /\ Step
    /\ kane' = KaneObject(Arg)
    /\ UNCHANGED <<kinVars, envVars, gen, written>>
    /\ UNCHANGED expr

KanesEquations ==
    /\ Ready("kanes_equations") /\ Step
    /\ kane' = KaneSolution(tup[Arg.bodies], tup[Arg.loads])
    /\ UNCHANGED <<kinVars, envVars, gen, written>>
    /\ UNCHANGED expr

UDots ==
    /\ Ready("udots") /\ Step
    /\ tup' = (Arg.n :> [i \in DOMAIN tup[Arg.src] |-> PName[tup[Arg.src][i]]])
                 @@ tup
    /\ UNCHANGED <<kinVars, mat, maps, body, load, outVars>>
    /\ UNCHANGED expr

ZipMap ==
    /\ Ready("zipmap") /\ Step
    /\ LET K == tup[Arg.keys]
           V == tup[Arg.vals]
           I == DOMAIN K \cap DOMAIN V
       IN  maps' = (Arg.n :> [d \in {DerivOf[K[i]] : i \in I} |->
                        {V[CHOOSE i \in I : DerivOf[K[i]] = d]}]) @@ maps
    /\ UNCHANGED <<kinVars, mat, tup, body, load, outVars>>
    /\ UNCHANGED expr

DefMatrix ==
    /\ Ready("matrix") /\ Step
    /\ mat' = (Arg.n :> EvalMat(Arg.m)) @@ mat
    /\ UNCHANGED <<kinVars, tup, maps, body, load, outVars>>
    /\ expr' = [expr EXCEPT !.mat = (Arg.n :> CloseMat(Arg.m)) @@ @]

Decompose ==
    /\ Ready("decompose") /\ Step
    /\ LET m == EvalMat(Arg.m)
           targets == Names(Arg.targets)
       IN  mat' = (Arg.A :> DecomposeA(m, targets)) @@
                  (Arg.B :> DecomposeB(m, targets)) @@ mat
    /\ UNCHANGED <<kinVars, tup, maps, body, load, outVars>>
    /\ expr' = [expr EXCEPT !.mat =
                 (Arg.A :> [t |-> "coeff", m |-> CloseMat(Arg.m),
                            targets |-> Names(Arg.targets)]) @@
                 (Arg.B :> [t |-> "rest", m |-> CloseMat(Arg.m),
                            targets |-> Names(Arg.targets)]) @@ @]

\* OctaveMatrixGenerator(groups, matrices): raises ValueError when a symbol
\* of the matrices is missing from the argument sequences
Generator ==
    /\ Ready("generator") /\ Step
    /\ gen' = [made |-> TRUE,
               groups |-> [i \in DOMAIN Arg.groups |-> Names(Arg.groups[i])],
               args |-> ArgSymbols(Arg.groups),
               exprs |-> Arg.mats,
               mats |-> [i \in DOMAIN Arg.mats |-> EvalMat(Arg.mats[i])],
               free |-> MatSymbols(Arg.mats),
               closed |-> [i \in DOMAIN Arg.mats |-> CloseMat(Arg.mats[i])],
               heap |-> expr.heap]
    /\ UNCHANGED <<kinVars, envVars, kane, written>>
    /\ UNCHANGED expr

Write ==
    /\ Ready("write") /\ Step
    /\ written' = Append(written, [file |-> Arg.file] @@ gen)
    /\ UNCHANGED <<kinVars, envVars, kane, gen>>
    /\ UNCHANGED expr

\* the file system refuses the write
WriteFail ==
    /\ Ready("write")
    /\ LET x == Propagate("OSError")
       IN  status' = x.status /\ error' = x.error /\ pc' = x.pc
    /\ UNCHANGED <<names, kinVars, envVars, outVars, call>>
    /\ UNCHANGED expr

Raise ==
    /\ Running /\ Err(StmtAt(pc)) # "none"
    /\ LET x == Propagate(Err(StmtAt(pc)))
       IN  status' = x.status /\ error' = x.error /\ pc' = x.pc
    /\ UNCHANGED <<names, kinVars, envVars, outVars, call>>
    /\ UNCHANGED expr

NoCall == [fn |-> "none"]

Init ==
    /\ pc = 1 /\ status = "running" /\ error = "none"
    /\ names = Builtins
    /\ frames = {} /\ orient = <<>> /\ angvel = <<>>
    /\ points = {} /\ pos = <<>> /\ vel = <<>> /\ vec = <<>>
    /\ mat = <<>> /\ tup = <<>> /\ maps = <<>> /\ body = <<>> /\ load = <<>>
    /\ kane = NoKane /\ gen = NoGen /\ written = <<>>
    /\ expr = NoExpr
    /\ call = NoCall

Next ==
    \/ Pass
    \/ NewFrame
    \/ Orient
    \/ SetAngVel
    \/ NewPoint
    \/ SetPos
    \/ SetVel
    \/ V2pt
    \/ DefVector
    \/ DefScalars
    \/ DefKd
    \/ DefInertia
    \/ DefBody
    \/ DefLoad
    \/ DefTuple
    \/ Concat
    \/ Alias
    \/ KanesMethod
    \/ KanesEquations
    \/ UDots
    \/ ZipMap
    \/ DefMatrix
    \/ Decompose
    \/ Generator
    \/ Write
    \/ WriteFail
    \/ Raise

Spec == Init /\ [][Next]_vars

(***************************************************************************)
(* The generated functions.  Once the script has ended, a function that    *)
(* was written can be called with numbers for its arguments; it returns    *)
(* the values of the matrices it was generated from.  The functions are    *)
(* pure, so one call per behaviour is recorded.                            *)
(***************************************************************************)
MaxLen == 1
Lengths == 0..MaxLen
Radii == {1, 2}
Turns == {0, 1, 2, 3}
TargetVals == {-1, 1}
RateVals == {1}
QuarterTurns == {1}
AngleSyms == {"q3", "q4", "q5", "q7"}
LengthSyms == {"d1", "d2", "d3"}
RadiusSyms == {"rf", "rr"}

Exported(f) == {i \in DOMAIN written : written[i].file = f}
Export(f) == written[CHOOSE i \in Exported(f) : TRUE]

Env(in) == [x \in DOMAIN in |-> Dual(in[x])]
Values(r) == Computed([i \in DOMAIN r |-> r[i][1]])

\* every rate zero, or exactly one of them nonzero
OneHot(S, V) ==
    {[x \in S |-> 0]} \cup {[x \in S |-> IF x = h THEN v ELSE 0] : h \in S, v \in V}

AngleInputs(args, T) == [args \cap AngleSyms -> T]

EvalHolonomic ==
    /\ Terminated /\ call = NoCall /\ Exported("eval_holonomic") # {}
    /\ \E a \in AngleInputs(Export("eval_holonomic").args, Turns),
          d \in [LengthSyms -> Lengths], r \in [RadiusSyms -> Radii] :
        LET in == a @@ d @@ r
            x == Export("eval_holonomic").closed
            h == Export("eval_holonomic").heap
        IN  /\ DOMAIN in = Export("eval_holonomic").args
            /\ \A i \in DOMAIN x : MatDefined(x[i], Env(in), h)
            /\ call' = [fn |-> "eval_holonomic", in |-> in,
                        out |-> Values(NMat(x[1], Env(in), h))]
    /\ UNCHANGED pvars

\* a call of one of the two linear solvers' evaluators, together with a
\* candidate t for the targets: the function returns A and b, and resid is
\* the constraint expression the pair was decomposed from, at t
EvalLinear(f, geom) ==
    /\ Terminated /\ call = NoCall /\ Exported(f) # {}
    /\ \E a \in OneHot(Export(f).args \cap AngleSyms, QuarterTurns),
          r \in OneHot(Export(f).args \ (AngleSyms \cup DOMAIN geom), RateVals),
          t \in OneHot(Range(Export(f).closed[1].targets), TargetVals) :
        LET in == a @@ geom @@ r
            x == Export(f).closed
            h == Export(f).heap
        IN  /\ \A i \in DOMAIN x : MatDefined(x[i], Env(in), h)
            /\ DOMAIN in = Export(f).args
            /\ call' = [fn |-> f, in |-> in, t |-> t,
                        targets |-> x[1].targets,
                        A |-> Values(NMat(x[1], Env(in), h)),
                        b |-> Values(NMat(x[2], Env(in), h)),
                        resid |-> Values(NMat(x[1].m, Env(t @@ in), h))]
    /\ UNCHANGED pvars

Geometry == [d1 |-> 1, d2 |-> 2, d3 |-> 1, rf |-> 1, rr |-> 2]

EvalDepSpeeds == EvalLinear("eval_dep_speeds", Geometry)
EvalDepSpeedsDerivs == EvalLinear("eval_dep_speeds_derivs", Geometry)

NextEval ==
    \/ EvalHolonomic
    \/ EvalDepSpeeds
    \/ EvalDepSpeedsDerivs
    \/ Pass
    \/ NewFrame
    \/ Orient
    \/ SetAngVel
    \/ NewPoint
    \/ SetPos
    \/ SetVel
    \/ V2pt
    \/ DefVector
    \/ DefScalars
    \/ DefKd
    \/ DefInertia
    \/ DefBody
    \/ DefLoad
    \/ DefTuple
    \/ Concat
    \/ Alias
    \/ KanesMethod
    \/ KanesEquations
    \/ UDots
    \/ ZipMap
    \/ DefMatrix
    \/ Decompose
    \/ Generator
    \/ Write
    \/ Raise

SpecEval == Init /\ [][NextEval]_vars

(***************************************************************************)
(* Properties.                                                             *)
(***************************************************************************)
Artifacts ==
    <<"eval_holonomic", "eval_dep_speeds", "eval_dep_speeds_derivs",
      "eval_dynamic_eqs", "eval_lat_forces">>

Files == [i \in DOMAIN written |-> written[i].file]

Covered(w) == w.free \subseteq w.args

GroupsOf(f) == Export(f).groups

\* C1, as specified: a run that the file system does not stop ends with the
\* five artifacts written, one per export step and in the order of the steps.
C1_FiveArtifactsPersisted ==
    (Terminated /\ error # "OSError") => Files = Artifacts

\* the run ends at line 475, after the fourth export
C1_StopsAtPause ==
    /\ status = "failed" /\ error = "NameError"
    /\ StmtAt(pc).line = 475
    /\ Files = SubSeq(Artifacts, 1, 4)

\* C2: a failure is fatal.  From a state in which a step has failed no
\* statement executes and no artifact is written: the position in the
\* script, the files, the generator and the failure itself stay as they are.
C2_FailureIsFatal ==
    [][error # "none" =>
          /\ status = "failed"
          /\ pc' = pc /\ written' = written /\ gen' = gen /\ names' = names
          /\ status' = status /\ error' = error]_vars

C2_FailedAfterTwoFiles ==
    status = "failed" /\ error = "OSError" /\ Len(written) = 2

\* the attributes of kane that a statement reads
StmtKaneReads(S) ==
    CASE S.op \in {"matrix", "decompose"} -> KaneReads(S.a.m)
      [] S.op = "generator" ->
            UNION {KaneReads(S.a.mats[i]) : i \in DOMAIN S.a.mats}
      [] OTHER -> {}

\* C3: the formulation (KanesMethod(..) followed by kanes_equations(..)) has
\* completed in every state in which an artifact is written, in which a
\* write is due, or in which the statement that is due reads an attribute of
\* kane; no statement fails for reading kane too early.
C3_FormulationBeforeExports ==
    /\ written # <<>> => KaneSolved
    /\ (Running /\ StmtAt(pc).op = "write") => KaneSolved
    /\ (Running /\ StmtKaneReads(StmtAt(pc)) # {}) => KaneSolved
    /\ error # "KaneNotSolved"

C3_MassMatrixRead ==
    /\ Running /\ "mass_matrix" \in StmtKaneReads(StmtAt(pc))
    /\ KaneSolved /\ Len(written) = 3

\* C4, as specified: each of the five exports takes place, and the union of
\* its argument groups covers every free symbol of its matrices.
C4_FiveExportsCovered ==
    (Terminated /\ error # "OSError") =>
        \A i \in DOMAIN Artifacts :
            /\ Exported(Artifacts[i]) # {}
            /\ Covered(Export(Artifacts[i]))

\* four exports took place, each covered by the groups the specification lists; the
\* fifth generator was never constructed
C4_FourExportsCovered ==
    /\ Terminated /\ error = "NameError"
    /\ \A i \in 1..4 : Exported(Artifacts[i]) # {} /\ Covered(Export(Artifacts[i]))
    /\ Exported("eval_lat_forces") = {}
    /\ GroupsOf("eval_holonomic") =
          <<<<"q4", "q5", "q7">>, <<"d1", "d2", "d3", "rf", "rr">>>>
    /\ GroupsOf("eval_dep_speeds") =
          <<<<"q3", "q4", "q5", "q7">>, <<"u1", "u3", "u4", "u6", "u7">>,
            <<"yd">>, <<"d1", "d2", "d3", "rf", "rr">>>>
    /\ GroupsOf("eval_dep_speeds_derivs") =
          <<<<"q3", "q4", "q5", "q7">>,
            <<"u1", "u2", "u3", "u4", "u5", "u6", "u7", "u8">>,
            <<"yd", "ydd">>, <<"u1p", "u3p", "u4p", "u6p", "u7p">>,
            <<"d1", "d2", "d3", "rf", "rr">>>>
    /\ GroupsOf("eval_dynamic_eqs") =
          <<<<"q3", "q4", "q5", "q7">>,
            <<"u1", "u2", "u3", "u4", "u5", "u6", "u7", "u8">>,
            <<"T4", "T6", "T7", "yd", "ydd", "Fry", "Mrz", "Ffy", "Mfz">>,
            tup["const"]>>

Distinct(s) == Cardinality(Range(s)) = Len(s)

\* C5: the formulator is given 7 independent and 1 dependent coordinates,
\* 5 independent, 3 dependent and 2 auxiliary speeds, all different, with 1
\* configuration constraint and 3 velocity constraints, and its consistency
\* check does not fail.
C5_PartitionConsistent ==
    /\ error # "KaneInconsistent"
    /\ KaneBuilt =>
        /\ Len(kane.q_ind) = 7 /\ Len(kane.q_dep) = 1
        /\ Len(kane.u_ind) = 5 /\ Len(kane.u_dep) = 3 /\ Len(kane.u_aux) = 2
        /\ Distinct(kane.q_ind \o kane.q_dep \o kane.u_ind \o kane.u_dep
                      \o kane.u_aux)
        /\ kane.holon.rows = Len(kane.q_dep) /\ kane.holon.cols = 1
        /\ kane.nonho.rows = Len(kane.u_dep) /\ kane.nonho.cols = 1

C5_FormulatorBuilt == Running /\ KaneBuilt /\ ~kane.solved

FlatCall ==
    /\ call.fn = "eval_holonomic"
    /\ call.in["q4"] = 0 /\ call.in["q5"] = 0 /\ call.in["q7"] = 0
    /\ call.in["d1"] = 0 /\ call.in["d3"] = 0
    /\ call.in["rf"] = call.in["rr"]

\* C7, as specified: in that configuration the holonomic constraint is zero,
\* whatever d2 and the common radius are.
C7_FlatIsZero == FlatCall => call.out = <<0>>

\* C7, amended: in that configuration the holonomic constraint equals d2,
\* whatever d2 and the common radius are; it is zero exactly when d2 = 0.
C7_FlatIsD2 ==
    FlatCall => /\ call.out = <<call.in["d2"]>>
                /\ call.out = <<0>> <=> call.in["d2"] = 0

C7_FlatWithOffset == FlatCall /\ call.in["d2"] = 1 /\ call.out = <<1>>

Linear == {"eval_dep_speeds", "eval_dep_speeds_derivs"}

TargetsOf(f) ==
    IF f = "eval_dep_speeds" THEN <<"u2", "u5", "u8">>
    ELSE <<"u2p", "u5p", "u8p">>

\* row i of A * t for the candidate t of the call
RECURSIVE RowSum(_, _)
RowSum(i, j) ==
    IF j = 0 THEN 0
    ELSE call.A[(i - 1) * Len(call.targets) + j] * call.t[call.targets[j]]
            + RowSum(i, j - 1)

Solves == \A i \in DOMAIN call.b : RowSum(i, Len(call.targets)) = call.b[i]

\* C8: each of the two linear exports is the pair (coefficient matrix,
\* minus remainder) of the decomposition of its constraint expression, with
\* the targets (u2, u5, u8) = u_dep, respectively (u2p, u5p, u8p); no target
\* is a symbol of the exported right-hand side or an argument of the
\* function; and for every candidate t for the targets, A * t = b holds if
\* and only if the constraint expression is zero at t (A * t - b is the
\* value of the expression).
C8_LinearExports ==
    /\ \A f \in Linear : Exported(f) # {} =>
          LET w == Export(f)
          IN  /\ Len(w.closed) = 2
              /\ w.closed[1].t = "coeff"
              /\ w.closed[1].targets = TargetsOf(f)
              /\ w.closed[2].t = "neg"
              /\ w.closed[2].m.t = "rest"
              /\ w.closed[2].m.m = w.closed[1].m
              /\ w.closed[2].m.targets = TargetsOf(f)
              /\ Range(TargetsOf(f)) \cap FreeSymbols(w.mats[2]) = {}
              /\ Range(TargetsOf(f)) \cap w.args = {}
    /\ Exported("eval_dep_speeds") # {} => TargetsOf("eval_dep_speeds") = kane.u_dep
    /\ call.fn \in Linear =>
          /\ call.targets = TargetsOf(call.fn)
          /\ Len(call.A) = Len(call.b) * Len(call.targets)
          /\ Len(call.resid) = Len(call.b)
          /\ \A i \in DOMAIN call.b :
                RowSum(i, Len(call.targets)) - call.b[i] = call.resid[i]
          /\ Solves <=> \A i \in DOMAIN call.resid : call.resid[i] = 0

\* a call with a nonzero right-hand side that the candidate solves
C8_SolvedWithNonzeroRhs ==
    /\ call.fn \in Linear
    /\ \E i \in DOMAIN call.b : call.b[i] # 0
    /\ Solves

PointNames == {"o", "dn", "do", "co", "ce", "fo", "eo", "fn", "dn_", "fn_"}

Reads(S) ==
    UNION {VelReads(S.a.items[i].l) \cup VelReads(S.a.items[i].r) :
              i \in DOMAIN S.a.items}

\* C9: a position is set once, relative to a point that exists, and the
\* positions form a tree rooted at o; a velocity is set once; a two-point
\* transport starts from a point whose velocity is set, and so does a
\* velocity written in terms of another point's; a constraint expression
\* reads velocities that are set and positions that are connected.  When
\* the formulator is built all ten points have their velocity, and all but
\* o their position.
C9_KinematicsSetOnce ==
    /\ points \subseteq PointNames
    /\ \A p \in points :
          /\ Len(pos[p]) <= 1 /\ Len(vel[p]) <= 1
          /\ pos[p] # <<>> =>
                /\ pos[p][1].parent \in points
                /\ PAnc(p)[Len(PAnc(p))] = "o"
    /\ (Running /\ StmtAt(pc).op = "set_pos") =>
          /\ Arg.p \in points /\ Arg.other \in points
          /\ pos[Arg.p] = <<>>
    /\ (Running /\ StmtAt(pc).op = "v2pt") =>
          /\ Arg.p \in points /\ Arg.other \in points
          /\ ~VelSet(Arg.p) /\ VelSet(Arg.other)
          /\ PosConnected(Arg.p, Arg.other)
    /\ (Running /\ StmtAt(pc).op = "set_vel") =>
          /\ Arg.p \in points /\ ~VelSet(Arg.p)
          /\ \A q \in VelReads(Arg.v) : VelSet(q)
    /\ (Running /\ StmtAt(pc).op = "scalars") =>
          /\ \A q \in Reads(StmtAt(pc)) : VelSet(q)
          /\ \A i \in DOMAIN Arg.items :
                \A r \in PosReads(Arg.items[i].l) \cup PosReads(Arg.items[i].r) :
                    PosConnected(r[1], r[2])
    /\ KaneBuilt =>
          /\ points = PointNames
          /\ \A p \in points : Len(vel[p]) = 1
          /\ \A p \in points \ {"o"} : Len(pos[p]) = 1
    /\ error \notin {"VelocityUndefined", "NoPositionPath"}

C9_ConstraintsReadVelocities ==
    /\ Running /\ StmtAt(pc).op = "scalars"
    /\ Reads(StmtAt(pc)) = {"dn_", "fn_"}
    /\ \A p \in PointNames : VelSet(p)

\* the loads whose target is in T
LoadsOn(T) == {n \in DOMAIN load : load[n].target \in T}

\* +-sym * A['3'] at the point p
Normal(n, p, sg, sym) ==
    /\ load[n].target = p
    /\ load[n].expr = [t |-> "scale", sg |-> sg, s |-> {sym},
                       v |-> [t |-> "basis", f |-> "A", i |-> 3]]

\* exactly one load at p is sym * A['3'] and exactly one at the shadow
\* point is -sym * A['3']: the two sum to zero
Paired(p, shadow, sym) ==
    /\ Cardinality({n \in DOMAIN load : Normal(n, p, 1, sym)}) = 1
    /\ Cardinality({n \in DOMAIN load : Normal(n, shadow, -1, sym)}) = 1
    /\ \A n \in LoadsOn({shadow}) : Normal(n, shadow, -1, sym)

\* C10: the list passed to kanes_equations holds 14 loads, every load that
\* is defined: a gravity force along A['3'] at each of co, do, eo, fo; a
\* lateral tire force at dn and at fn; a normal tire force at dn and at fn,
\* each with one equal and opposite load at its shadow point; a torque on
\* each of C, D, E, F.  Every target is a point or a frame of the script.
C10_Loads ==
    /\ "loads" \in DOMAIN tup =>
          /\ Len(tup["loads"]) = 14 /\ Distinct(tup["loads"])
          /\ Range(tup["loads"]) = DOMAIN load
          /\ \A n \in DOMAIN load : load[n].target \in points \cup frames
          /\ \A p \in {"co", "do", "eo", "fo"} :
                /\ Cardinality(LoadsOn({p})) = 1
                /\ \A n \in LoadsOn({p}) :
                      /\ load[n].expr.t = "scale" /\ load[n].expr.sg = 1
                      /\ "g" \in load[n].expr.s
                      /\ load[n].expr.v = [t |-> "basis", f |-> "A", i |-> 3]
          /\ Cardinality(LoadsOn({"dn"})) = 2 /\ Cardinality(LoadsOn({"fn"})) = 2
          /\ \E n \in LoadsOn({"dn"}) : load[n].expr.s = {"Fry"}
          /\ \E n \in LoadsOn({"fn"}) : load[n].expr.s = {"Ffy"}
          /\ Paired("dn", "dn_", "Frz") /\ Paired("fn", "fn_", "Ffz")
          /\ Cardinality(LoadsOn({"dn_"})) = 1 /\ Cardinality(LoadsOn({"fn_"})) = 1
          /\ LoadsOn(frames) = LoadsOn({"C", "D", "E", "F"})
          /\ \A f \in {"C", "D", "E", "F"} : Cardinality(LoadsOn({f})) = 1
    /\ KaneSolved => kane.loads = tup["loads"]

C10_LoadsPassed ==
    KaneSolved /\ Len(kane.loads) = 14 /\ Paired("fn", "fn_", "Ffz")

====
